---- MODULE Spec2Model ----
(***************************************************************************)
(* Model of the background loops of wx-filehelper-api (src/background.py): *)
(* the dedup/backoff message listener and the heartbeat/reconnect          *)
(* supervisor, interleaved at their await points only (asyncio, one        *)
(* thread).  Texts and ids are sequences of one-character strings so that  *)
(* str.strip() is computed, not assumed.  Poll intervals are exact         *)
(* rationals <<numerator, denominator>>.                                   *)
(***************************************************************************)
EXTENDS Integers, Sequences, FiniteSets, TLC

(* ------------------------------------------------------------------ *)
(* Bounds.  The capacities of the program (5000, 40, 100, 20, 10, 12)  *)
(* are scaled down so that overflow, eviction and resync are reached.  *)
(* ------------------------------------------------------------------ *)
\* capacity of processed_order, deque(maxlen=5000)
ProcessedCap == 2
\* capacity of sent_buffer, deque(maxlen=40)
SentCap == 2
\* slack of the resync test, len(processed_set) > len(processed_order) + 100
DriftSlack == 1
\* length of the error history kept by _add_error, 20
ErrCap == 2
\* max_reconnect_attempts, 10 by default
MaxReconnectAttempts == 1
\* messages returned by one get_latest_messages(limit=12)
MaxBatch == 2
\* idle cycles in a row that are counted
IdleCap == 11
\* value at which the count of total_messages stops
MaxTotal == 2
\* scheduled tasks ever added
MaxTasks == 2
\* days the clock of the scheduler runs through
MaxDay == 2
\* _downloads_cache_ttl of routes/files.py, 10 seconds
CacheTTL == 2
\* the last second the wall clock is followed to
MaxClock == 5
\* size the key set of the listener of main.py is cut back to, 200
LegacyCap == 2

(* ------------------------------------------------------------------ *)
(* Texts, str.strip(), messages                                        *)
(* ------------------------------------------------------------------ *)
Empty == << >>

IsSpace(c) == c = " "

RECURSIVE LStrip(_)
LStrip(s) == IF s # Empty /\ IsSpace(Head(s)) THEN LStrip(Tail(s)) ELSE s

RECURSIVE RStrip(_)
RStrip(s) ==
    IF s # Empty /\ IsSpace(s[Len(s)]) THEN RStrip(SubSeq(s, 1, Len(s) - 1)) ELSE s

\* str.strip(): leading and trailing whitespace removed
Strip(s) == RStrip(LStrip(s))

Range(s) == { s[i] : i \in 1..Len(s) }

\* line 131 without reversed()
SameOrder(s) == s

\* reversed(messages), line 131
RECURSIVE Reverse(_)
Reverse(s) == IF s = Empty THEN Empty ELSE Append(Reverse(Tail(s)), Head(s))

\* the messages the transport may return (id, text, type)
Msg(i, t, ty) == [id |-> i, text |-> t, type |-> ty]

\* messages that differ in their id: dedup, eviction, resync, download
DedupMessages ==
    { Msg(<<"1">>, <<"a">>, "text"),
      Msg(<<"2">>, <<"b">>, "text"),
      Msg(<<"3">>, Empty, "file"),
      Msg(<<"4">>, <<"b">>, "text") }

\* messages whose text can equal a reply: echo filter, key taken from the text
EchoMessages ==
    { Msg(<<"1">>, <<"a">>, "file"),
      Msg(<<"2">>, <<"a", " ">>, "text"),
      Msg(Empty, <<"a">>, "text"),
      Msg(<<" ">>, <<" ">>, "text") }

Messages == DedupMessages \cup EchoMessages

NoMsg == Msg(Empty, Empty, "none")

\* what one get_latest_messages call may return, newest first
BatchesOf(M) == UNION { [1..n -> M] : n \in 0..MaxBatch }
Batches == BatchesOf(Messages)

\* what processor.process may return; Empty stands for None / ""
Replies == { Empty, <<"a">>, <<"a", " ">> }
NoReply == { Empty }

\* error history entries (the "error" field; the time field is left out)
ListenerError == "Listener error"
HeartbeatError == "Heartbeat error"
MaxReconnectError == "Max reconnect attempts reached"
CleanupError == "Cleanup error"

\* the background loops, in the order stop_all visits their handles (72-77)
LoopOrder == <<"listener", "saver", "heartbeat", "cleanup">>
Loops == {"listener", "saver", "heartbeat", "cleanup"}

\* values of file_retention_days
RetentionDays == {0, 7}

\* line 67 with ">= 0" for "> 0"
StartsCleanupAlways(days) == days >= 0

\* line 67: the cleanup loop is created when file_retention_days > 0
StartsCleanup(days) == days > 0

\* lines 250-253: the arguments of cleanup_old_files
SweepCall(days) == [days |-> days, delete_files |-> TRUE]

\* line 82 left out
NotAwaited(pc) == TRUE

\* line 82: `await task` returns once the task is over
Awaited(pc) == pc = "done"

(* ------------------------------------------------------------------ *)
(* Poll interval arithmetic, exact rationals                           *)
(* ------------------------------------------------------------------ *)
initial_interval == <<1, 1>>
min_interval == <<1, 2>>
max_interval == <<3, 1>>

RLess(p, q) == p[1] * q[2] < q[1] * p[2]
REq(p, q) == p[1] * q[2] = q[1] * p[2]
RMin(p, q) == IF RLess(p, q) THEN p ELSE q

\* poll_interval * 1.2
Times12(p) == <<p[1] * 6, p[2] * 5>>

\* lines 168-171 with the cap left out
AdjustNoCap(p, had) == IF had THEN min_interval ELSE Times12(p)

\* lines 168-171 with the reset left out
AdjustNoReset(p, had) == RMin(Times12(p), max_interval)

\* lines 168-171: the interval after a cycle that did not raise
AdjustInterval(p, had) ==
    IF had THEN min_interval ELSE RMin(Times12(p), max_interval)

(* ------------------------------------------------------------------ *)
(* Bounded containers                                                  *)
(* ------------------------------------------------------------------ *)
\* an append that never drops an entry
ListAppend(q, x, cap) == Append(q, x)

\* deque(maxlen=cap).append(x): the oldest entry is dropped when full
DequeAppend(q, x, cap) ==
    IF Len(q) >= cap THEN Append(Tail(q), x) ELSE Append(q, x)

\* _add_error with [:20] for [-20:]: the first ErrCap entries are kept
AddErrorKeepOldest(errs, e) ==
    LET a == Append(errs, e)
    IN  IF Len(a) > ErrCap THEN SubSeq(a, 1, ErrCap) ELSE a

\* _add_error: append, then keep the last ErrCap entries
AddError(errs, e) ==
    LET a == Append(errs, e)
    IN  IF Len(a) > ErrCap THEN SubSeq(a, Len(a) - ErrCap + 1, Len(a)) ELSE a

\* lines 164-165 with set() for set(processed_order): the resync forgets
\* every key
ResyncClears(pset, pord) ==
    IF Cardinality(pset) > Len(pord) + DriftSlack THEN {} ELSE pset

\* lines 164-165: resync of processed_set from processed_order
Resync(pset, pord) ==
    IF Cardinality(pset) > Len(pord) + DriftSlack THEN Range(pord) ELSE pset

\* lines 132-134
Content(m) == Strip(m.text)
MsgId(m) == Strip(m.id)

\* line 134 on the id and the text as received, not stripped
RawKey(m) == IF m.id # Empty THEN m.id ELSE m.text

UniqueKey(m) == IF MsgId(m) # Empty THEN MsgId(m) ELSE Content(m)

\* line 144: the message is an echo of a reply the listener sent
IsEcho(m, sent) == Content(m) # Empty /\ Content(m) \in Range(sent)

\* line 150
auto_download == TRUE
NeedsDownload(m) == auto_download /\ m.type \in {"image", "file"}

Keys == { UniqueKey(m) : m \in Messages } \ {Empty}

\* line 138 with the test left out
NeverProcessed(k, pset) == FALSE

\* line 138
AlreadyProcessed(k, pset) == k \in pset

\* line 177 left out
KeepInterval(p) == p

\* line 177: the interval after a cycle that raised
FaultInterval(p) == max_interval

\* line 232 left out: a reconnect is attempted whatever the count
MayReconnectAlways(n) == TRUE

\* line 232 with "<" for "<="
MayReconnectBelow(n) == n < MaxReconnectAttempts

\* line 232: the heartbeat reconnects while the count is within the maximum
MayReconnect(n) == n <= MaxReconnectAttempts

(* ------------------------------------------------------------------ *)
(* Sending through the transport, bot.py send_text / send_file         *)
(* ------------------------------------------------------------------ *)
\* the coroutines that call send_text or send_file: the listener
\* (main.py:49), a request handler (main.py:119, 142), a command
\* (builtin.py:114)
Senders == {"listener", "api", "plugin"}

\* what a caller sends: a text, a file that exists, a file that does not
SendKinds == {"text", "file", "nofile"}

\* the awaits of a send inside `async with self.lock`, in order
TextSteps == <<"click", "type", "enter">>
FileSteps == <<"chooser", "count", "setfiles", "pause", "fenter">>
GateSteps == Range(TextSteps) \cup Range(FileSteps)

StepsOf(kind) == IF kind = "text" THEN TextSteps ELSE FileSteps

\* the await that follows pc in the send, or "done" after the last one
NextStep(kind, pc) ==
    LET st == StepsOf(kind)
        i == CHOOSE j \in 1..Len(st) : st[j] = pc
    IN  IF i = Len(st) THEN "done" ELSE st[i + 1]

\* an acquire that never waits
NoGate(l, w) == TRUE

\* asyncio.Lock.acquire returns at once: not held, nobody queued
CanAcquire(l, w) == l = "free" /\ w = Empty

(* ------------------------------------------------------------------ *)
(* Scheduled tasks: time strings, the table, the management replies    *)
(* ------------------------------------------------------------------ *)
\* "U+0669" stands for the one character ARABIC-INDIC DIGIT NINE
AsciiDigits == {"0", "1", "2", "3", "4", "5", "6", "7", "8", "9"}

\* \d of the pattern: any decimal digit, ASCII or not
IsDecimal(ch) == ch \in AsciiDigits \cup {"U+0669"}

\* time_hm strings a caller may offer to add
TimeInputs ==
    { <<"0", "9", ":", "0", "0">>,
      <<"2", "3", ":", "5", "9">>,
      <<"2", "4", ":", "0", "0">>,
      <<"0", "9", ":", "6", "0">>,
      <<"9", ":", "0", "0">>,
      <<"0", "9", "0", "0">>,
      <<"0", "9", ":", "0", "0", "\n">>,
      <<"0", "U+0669", ":", "0", "0">>,
      <<"0", "9", ":", "0", "a">>,
      Empty }

\* command texts a caller may offer; the empty one only through the API
CommandInputs == {"/status", ""}

\* the minutes the clock passes through in one day, in order
ClockMinutes ==
    << <<"0", "9", ":", "0", "0">>,
       <<"1", "2", ":", "0", "0">>,
       <<"2", "3", ":", "5", "9">> >>

\* task ids a caller may name; 0 is never issued
IdInputs == 0..MaxTasks

\* the times of the tasks the clock is checked against
SchedTimes == { <<"0", "9", ":", "0", "0">>, <<"2", "3", ":", "5", "9">> }

\* the pattern without its alternative 2[0-3]
PatternNoTwenties(s) ==
    /\ Len(s) = 5
    /\ s[1] \in {"0", "1"} /\ IsDecimal(s[2])
    /\ s[3] = ":"
    /\ s[4] \in {"0", "1", "2", "3", "4", "5"} /\ IsDecimal(s[5])

\* TaskCreatePayload.time_hm, pattern ^([01]\d|2[0-3]):[0-5]\d$
TimePattern(s) ==
    /\ Len(s) = 5
    /\ \/ s[1] \in {"0", "1"} /\ IsDecimal(s[2])
       \/ s[1] = "2" /\ s[2] \in {"0", "1", "2", "3"}
    /\ s[3] = ":"
    /\ s[4] \in {"0", "1", "2", "3", "4", "5"} /\ IsDecimal(s[5])

\* TaskCreatePayload.command, min_length=1
CommandPattern(c) == c # ""

DigitValue(ch) ==
    CASE ch = "0" -> 0 [] ch = "1" -> 1 [] ch = "2" -> 2 [] ch = "3" -> 3
      [] ch = "4" -> 4 [] ch = "5" -> 5 [] ch = "6" -> 6 [] ch = "7" -> 7
      [] ch = "8" -> 8 [] ch = "9" -> 9

\* add validates that time_hm is HH:MM, 00-23 : 00-59
ValidTimeHM(s) ==
    /\ Len(s) = 5
    /\ s[3] = ":"
    /\ \A i \in {1, 2, 4, 5} : s[i] \in AsciiDigits
    /\ 10 * DigitValue(s[1]) + DigitValue(s[2]) <= 23
    /\ 10 * DigitValue(s[4]) + DigitValue(s[5]) <= 59

\* minutes since midnight of a valid time, the order of the time strings
MinuteOfDay(s) ==
    60 * (10 * DigitValue(s[1]) + DigitValue(s[2]))
        + 10 * DigitValue(s[4]) + DigitValue(s[5])

NeverFired == <<0, Empty>>

NewTask(time_hm, command_text) ==
    [time_hm |-> time_hm, command_text |-> command_text, enabled |-> TRUE,
     last_key |-> NeverFired]

\* a task is due without regard to the minutes it fired in
DueAgain(t, day, hm) == t.enabled /\ t.time_hm = hm

\* the clock check: enabled, its time is the current minute, and it has not
\* fired in this minute of this day
Due(t, day, hm) == t.enabled /\ t.time_hm = hm /\ t.last_key # <<day, hm>>

\* (time_hm, task_id) of a is before that of b
TaskBefore(tbl, a, b) ==
    \/ MinuteOfDay(tbl[a].time_hm) < MinuteOfDay(tbl[b].time_hm)
    \/ tbl[a].time_hm = tbl[b].time_hm /\ a < b

\* list: the ids of the table sorted by (time_hm, task_id)
RECURSIVE SortedIds(_, _)
SortedIds(tbl, ids) ==
    IF ids = {} THEN Empty
    ELSE LET first == CHOOSE a \in ids : \A b \in ids \ {a} : TaskBefore(tbl, a, b)
         IN  <<first>> \o SortedIds(tbl, ids \ {first})

list_tasks(tbl) == SortedIds(tbl, DOMAIN tbl)

\* str.lower() on the sub-command token of /task
Lower(tok) ==
    CASE tok = "LIST" -> "list" [] tok = "Add" -> "add" [] tok = "DEL" -> "del"
      [] tok = "RUN" -> "run" [] tok = "On" -> "on" [] OTHER -> tok

TaskTokens == {"list", "LIST", "add", "Add", "del", "DEL", "delete", "rm", "on",
               "On", "off", "run", "RUN", "bogus"}

\* /task invocations: the tokens after /task are n in number, tok is the
\* first, and id or time is the second where the sub-command reads one
ChatCall(tok, n, id, time) == [tok |-> tok, n |-> n, id |-> id, time |-> time]

ChatCalls ==
    {ChatCall("", 0, 0, Empty)}
    \cup { ChatCall(tok, 1, 0, Empty) : tok \in TaskTokens }
    \cup { ChatCall(tok, 3, 0, t) : tok \in {"add", "Add"}, t \in TimeInputs }
    \cup { ChatCall("add", 2, 0, t) : t \in {<<"0", "9", ":", "0", "0">>} }
    \cup { ChatCall(tok, 2, i, Empty) :
              tok \in TaskTokens \ {"list", "LIST", "add", "Add"}, i \in IdInputs }

\* replies of the management surface.  Api(code, detail): the HTTP status and
\* the "status" or "detail" text; Chat(text): the reply of /task, written
\* here in English (builtin.py:128-162 has the texts)
Api(code, detail, id, ids) == [surface |-> "api", code |-> code, text |-> detail,
                               id |-> id, list |-> ids]
Chat(text, id, ids) == [surface |-> "chat", code |-> 0, text |-> text,
                        id |-> id, list |-> ids]
NoResp == [surface |-> "none", code |-> 0, text |-> "", id |-> 0, list |-> Empty]

\* /task on, off and run
SchedCalls ==
    { ChatCall(tok, 2, i, Empty) : tok \in {"on", "off", "run", "RUN"}, i \in IdInputs }

(* ------------------------------------------------------------------ *)
(* Plugins, command registry, dispatch pipeline                        *)
(* ------------------------------------------------------------------ *)
\* plugin units in the order they are scanned: plugins/builtin.py,
\* plugins/example.py, and a unit a user has put between them
Units == <<"builtin", "custom", "example">>

\* what loading a unit does: it loads, it does not parse, it raises
Healths == {"ok", "syntax", "raise"}

\* the commands a unit registers: name, and the keys (name and aliases) that
\* resolve to it
Cmd(u, name, keys) == [unit |-> u, name |-> name, keys |-> keys]

CommandTable ==
    { Cmd("builtin", "ping", {<<"p", "i", "n", "g">>}),
      Cmd("builtin", "help", {<<"h", "e", "l", "p">>, <<"h">>, <<"?">>}),
      Cmd("builtin", "reload", {<<"r", "e", "l", "o", "a", "d">>}),
      Cmd("example", "time", {<<"t", "i", "m", "e">>, <<"n", "o", "w">>,
                              <<"d", "a", "t", "e">>}),
      Cmd("example", "calc", {<<"c", "a", "l", "c">>}) }

\* the message handlers a unit registers, in the order of registration
Handler(name, priority) == [name |-> name, priority |-> priority]

UnitHandlers(u) ==
    CASE u = "custom" -> << Handler("fallback", 75) >>
      [] u = "example" -> << Handler("spam_filter", 100), Handler("auto_reply", 50) >>
      [] OTHER -> Empty

UnitCommands(u) == { c \in CommandTable : c.unit = u }
UnitKeys(u) == UNION { c.keys : c \in UnitCommands(u) }

EmptyRegistry == [commands |-> << >>, handlers |-> Empty]

\* the decorators of unit u have run: each name and alias resolves to its
\* command, each handler is appended
Register(reg, u) ==
    [commands |->
        [k \in DOMAIN reg.commands \cup UnitKeys(u) |->
            IF k \in UnitKeys(u)
            THEN (CHOOSE c \in UnitCommands(u) : k \in c.keys).name
            ELSE reg.commands[k]],
     handlers |-> reg.handlers \o UnitHandlers(u)]

\* the registry after a load of all units
RECURSIVE LoadAll(_, _, _)
LoadAll(reg, us, h) ==
    IF us = Empty THEN reg
    ELSE LoadAll(IF h[Head(us)] = "ok" THEN Register(reg, Head(us)) ELSE reg,
                 Tail(us), h)

\* a load that gives up at the first unit that fails: u is registered only
\* if it and every unit scanned before it load
LoadStopsAtFailure(u, h) ==
    \A i \in 1..Len(Units) :
        (\E j \in i..Len(Units) : Units[j] = u) => h[Units[i]] = "ok"

\* a unit is registered when it loads, whatever the other units do
UnitLoads(u, h) == h[u] = "ok"

\* reload_all awaited: other coroutines run while it is under way
Interleaved(p) == TRUE

\* framework.py 176, builtin.py 199: reload_all() is called without await, so
\* no other coroutine runs between its first and its last step
NoAwaitInReload(p) == p = "idle"

CommandNames(reg) == { reg.commands[k] : k \in DOMAIN reg.commands }



\* the handler chain: highest priority first, registration order among equals
RECURSIVE ByPriority(_)
ByPriority(hs) ==
    IF hs = Empty THEN Empty
    ELSE LET top == CHOOSE i \in 1..Len(hs) :
                        /\ \A j \in 1..Len(hs) : hs[j].priority <= hs[i].priority
                        /\ \A j \in 1..(i - 1) : hs[j].priority < hs[i].priority
         IN  <<hs[top]>> \o
             ByPriority(SubSeq(hs, 1, top - 1) \o SubSeq(hs, top + 1, Len(hs)))

\* texts handed to the pipeline: /ping, /PING, /h, /Now x, /nosuch, hello,
\* /reload
DispatchTexts ==
    { <<"/", "p", "i", "n", "g">>,
      <<"/", "P", "I", "N", "G">>,
      <<"/", "h">>,
      <<"/", "N", "o", "w", " ", "x">>,
      <<"/", "n", "o", "s", "u", "c", "h">>,
      <<"h", "e", "l", "l", "o">>,
      <<"/", "r", "e", "l", "o", "a", "d">> }

\* the texts dispatched while plugin files change: /ping and /reload
ReloadTexts ==
    { <<"/", "p", "i", "n", "g">>, <<"/", "r", "e", "l", "o", "a", "d">> }

CommandPrefix == "/"

\* str.lower() on the characters of the texts
LowerChar(c) ==
    CASE c = "P" -> "p" [] c = "I" -> "i" [] c = "N" -> "n" [] c = "G" -> "g"
      [] OTHER -> c

LowerText(s) == [i \in 1..Len(s) |-> LowerChar(s[i])]



RECURSIVE FirstWord(_)
FirstWord(s) ==
    IF s = Empty \/ IsSpace(Head(s)) THEN Empty ELSE <<Head(s)>> \o FirstWord(Tail(s))

IsCommandText(text) == text # Empty /\ Head(text) = CommandPrefix

\* the command token of a command text, as it is looked up
CommandToken(text) == LowerText(FirstWord(Tail(text)))

\* the command a token resolves to, "none" if no name or alias is the token
Resolve(reg, token) ==
    IF token \in DOMAIN reg.commands THEN reg.commands[token] ELSE "none"

\* a handler that answers with the name of its command
ReplyIsName(name) == name

\* what a command handler returns; builtin.py 13-15: ping returns "pong"
CommandReply(name) == IF name = "ping" THEN "pong" ELSE "reply of command"

\* what a message handler may return: a reply, or None
HandlerReplies == {"reply of handler", ""}

\* the text of a reply of the pipeline, character by character
ReplyText(r) ==
    CASE r = "" -> Empty
      [] r = "pong" -> <<"p", "o", "n", "g">>
      [] OTHER -> <<r>>

\* processor.process on a message to which no message handler replies: the
\* reply of the command its text resolves to, or none
process(reg, m) ==
    IF IsCommandText(m.text) /\ Resolve(reg, CommandToken(m.text)) # "none"
    THEN ReplyText(CommandReply(Resolve(reg, CommandToken(m.text))))
    ELSE Empty

\* messages of the ordering scenario: hello, /ping, /h
OrderMessages ==
    { Msg(<<"1">>, <<"h", "e", "l", "l", "o">>, "text"),
      Msg(<<"2">>, <<"/", "p", "i", "n", "g">>, "text"),
      Msg(<<"3">>, <<"/", "h">>, "text") }

\* get_status as cmd_plugins reads it (builtin.py 181-193)
get_status(reg, loaded, errs) ==
    [loaded_count |-> Len(loaded),
     commands_count |-> Cardinality(CommandNames(reg)),
     handlers_count |-> Len(reg.handlers),
     loaded_plugins |-> loaded,
     errors |-> errs]

NoStatus == [loaded_count |-> 0, commands_count |-> 0, handlers_count |-> 0,
             loaded_plugins |-> Empty, errors |-> <<"none">>]

AllOk == [i \in Range(Units) |-> "ok"]

(* ------------------------------------------------------------------ *)
(* State                                                               *)

(* ------------------------------------------------------------------ *)
(* Downloads cache, routes/files.py                                    *)
(* ------------------------------------------------------------------ *)
\* line 51: the two cache keys
cache_key(include_subdirs) ==
    IF include_subdirs THEN "subdirs_True" ELSE "subdirs_False"

CacheKeys == { cache_key(b) : b \in BOOLEAN }

\* no listing held under a key
Absent == 0 - 1

\* a listing of the directory stands for itself by the time it was scanned
\* at.  none: _downloads_cache is None
NoCache == [none |-> TRUE, files |-> [k \in CacheKeys |-> Absent]]

\* line 54
InCache(cache, key) == ~cache.none /\ cache.files[key] # Absent

\* line 55: the cache was written less than the TTL ago
Fresh(written, now) == now - written < CacheTTL

\* lines 99-101
Store(cache, key, now) ==
    [none |-> FALSE,
     files |-> [k \in CacheKeys |->
                  IF k = key THEN now
                  ELSE IF cache.none THEN Absent ELSE cache.files[k]]]

NoScan == [key |-> "none", scanned |-> 0, at |-> 0, cached |-> FALSE]

(* ------------------------------------------------------------------ *)
(* The listener of main.py                                             *)
(* ------------------------------------------------------------------ *)
\* main.py lines 32-37: the id as received, else the stripped text
LegacyKey(m) == IF m.id # Empty THEN m.id ELSE Strip(m.text)

\* main.py lines 43-44: set.pop() takes out whichever element x the hash
\* order puts first
Pop(ids, x) == IF Cardinality(ids) > LegacyCap THEN ids \ {x} ELSE ids

\* what command_processor.process returns to the listener of main.py
LegacyReplies == { Empty, <<"a">> }

(* ------------------------------------------------------------------ *)
VARIABLES
    lpc,               \* listener: the await it is suspended at, or "loop"
    processed_order,   \* deque of keys
    processed_set,     \* set of keys
    sent_buffer,       \* deque of reply texts
    poll_interval,
    had_messages,
    messages,          \* messages of this cycle still to visit, oldest first
    msg,               \* message being downloaded / processed / replied to
    reply,
    hpc,               \* heartbeat: the await it is suspended at
    is_logged_in,      \* bot.is_logged_in
    reconnect_attempts,
    errors,            \* stability_state["errors"]
    last_heartbeat,    \* stability_state["last_heartbeat"]: 0, or 1 once written
    last_message_time, \* stability_state["last_message_time"]: 0, or 1 once written
    total_messages,    \* stability_state["total_messages"], counted up to MaxTotal
    dispatched,        \* history: keys processor.process was invoked for
    undispatched,      \* history: keys accepted as new, process not invoked yet
    since,             \* history: keys recorded since process was last invoked
                       \*          for the key, capped at ProcessedCap
    added,             \* history: what this cycle recorded as new: "none",
                       \*          "echo" (echoes only) or "new"
    skipped_dup,       \* history: this cycle skipped a key dispatched before
    sent_count,        \* history: successful sends, capped at SentCap + 1
    cycle,             \* history: how the last listener cycle ended
    streak,            \* history: idle cycles in a row, capped at IdleCap
    streak_base,       \* history: poll_interval when the idle streak began
    spc,               \* send: per caller, the await its send is suspended at
    skind,             \* send: per caller, what it is sending
    lock,              \* bot.lock: its holder, or "free"
    waiters,           \* bot.lock: callers queued in acquire, oldest first
    sresult,           \* send: per caller, what its last send returned
    tasks,             \* processor.tasks: task_id -> task
    next_id,           \* the next task_id to issue
    clock,             \* local time: day and index into ClockMinutes
    resp,              \* what the last management operation answered
    task_runs,         \* history: the runs through the pipeline begun by
                       \*          the last step, {[id, trigger, command]}
    issued,            \* history: task ids ever issued
    fired_now,         \* history: per id, scheduled runs in the current
                       \*          minute, counted up to 2
    fired_total,       \* history: per id, scheduled runs, up to MaxDay
    checks_now,        \* history: clock checks in the current minute, up to 2
    health,            \* per plugin unit, what loading its file does
    registry,          \* command registry and handler list
    loaded_plugins,    \* units loaded, in order
    load_errors,       \* [file, error] of the units that failed to load
    rpc,               \* reload_all: "idle", or who called the one under way
    rqueue,            \* reload_all: units still to load
    pstatus,           \* the status last reported to a caller
    dpc,               \* pipeline: the await it is suspended at
    dtext,             \* pipeline: text of the message
    dcmd,              \* pipeline: the command the text resolved to
    dchain,            \* pipeline: handlers still to invoke
    dreply,            \* pipeline: the reply
    seen,              \* history: the registry the last reader saw
    expected,          \* history: the registry as the last complete load
                       \*          had left it when that reader looked
    last_complete,     \* history: the registry after the last complete load
    called,            \* history: handlers invoked for this message
    nsent,             \* history: replies sent for this message
    file_retention_days, \* configuration, fixed at construction
    vpc,               \* session saver: the await it is suspended at
    cpc,               \* file cleanup: the await it is suspended at
    stopping,          \* stop_all: "no", the loop it awaits, or "returned"
    sweeps,            \* history: the arguments of the cleanup_old_files calls
    saver_logged,      \* history: the session saver has printed an error
    wall_clock,        \* time.time(), in whole seconds
    downloads_cache,   \* files.py: per cache key the listing held, or none
    downloads_cache_time, \* files.py: when the cache was last written
    last_scan,         \* history: what the last _scan_downloads returned
    legacy_pc,         \* main.py listener: the await it is suspended at
    processed_ids,     \* main.py listener: keys of the messages taken up
    legacy_messages,   \* main.py listener: batch still to visit, oldest first
    legacy_msg,        \* main.py listener: the message being processed
    prev_done,         \* history: keys passed to process in the poll before
    cur_done           \* history: keys passed to process in this poll

lvars == <<lpc, processed_order, processed_set, sent_buffer, poll_interval,
           had_messages, messages, msg, reply>>
svars == <<is_logged_in, reconnect_attempts, errors>>
tvars == <<last_message_time, total_messages>>
gvars == <<dispatched, undispatched, since, added, skipped_dup, sent_count, cycle,
           streak, streak_base>>
sendvars == <<spc, skind, lock, waiters, sresult>>
taskvars == <<tasks, next_id, clock, resp>>
thist == <<task_runs, issued, fired_now, fired_total, checks_now>>
plugvars == <<health, registry, loaded_plugins, load_errors, rpc, rqueue, pstatus>>
dispvars == <<dpc, dtext, dcmd, dchain, dreply>>
phist == <<seen, expected, last_complete, called, nsent>>
pvars == <<plugvars, dispvars, phist>>
lifevars == <<file_retention_days, vpc, cpc, stopping, sweeps, saver_logged>>
\* what the listener and the heartbeat never touch
filevars == <<wall_clock, downloads_cache, downloads_cache_time, last_scan>>
legacyvars == <<legacy_pc, processed_ids, legacy_messages, legacy_msg, prev_done,
                cur_done>>
xvars == <<filevars, legacyvars>>
ovars == <<sendvars, taskvars, thist, pvars, lifevars, xvars>>
vars == <<lvars, hpc, svars, tvars, last_heartbeat, gvars, ovars>>

\* lines 28-59: the task handles are None, no loop runs
Init ==
    /\ lpc = "none"
    /\ processed_order = Empty
    /\ processed_set = {}
    /\ sent_buffer = Empty
    /\ poll_interval = initial_interval
    /\ had_messages = FALSE
    /\ messages = Empty
    /\ msg = NoMsg
    /\ reply = Empty
    /\ hpc = "none"
    /\ is_logged_in = FALSE
    /\ reconnect_attempts = 0
    /\ errors = Empty
    /\ last_heartbeat = 0
    /\ last_message_time = 0
    /\ total_messages = 0
    /\ dispatched = {}
    /\ undispatched = {}
    /\ since = [k \in Keys |-> ProcessedCap]
    /\ added = "none"
    /\ skipped_dup = FALSE
    /\ sent_count = 0
    /\ cycle = "none"
    /\ streak = 0
    /\ streak_base = initial_interval
    /\ spc = [c \in Senders |-> "idle"]
    /\ skind = [c \in Senders |-> "none"]
    /\ lock = "free"
    /\ waiters = Empty
    /\ sresult = [c \in Senders |-> "none"]
    /\ tasks = << >>
    /\ next_id = 1
    /\ clock = [day |-> 1, min |-> 1]
    /\ resp = NoResp
    /\ task_runs = {}
    /\ issued = {}
    /\ fired_now = [i \in 1..MaxTasks |-> 0]
    /\ fired_total = [i \in 1..MaxTasks |-> 0]
    /\ checks_now = 0
    /\ health = AllOk
    /\ registry = LoadAll(EmptyRegistry, Units, AllOk)
    /\ loaded_plugins = Units
    /\ load_errors = Empty
    /\ rpc = "idle"
    /\ rqueue = Empty
    /\ pstatus = NoStatus
    /\ dpc = "idle"
    /\ dtext = Empty
    /\ dcmd = "none"
    /\ dchain = Empty
    /\ dreply = ""
    /\ seen = LoadAll(EmptyRegistry, Units, AllOk)
    /\ expected = LoadAll(EmptyRegistry, Units, AllOk)
    /\ last_complete = LoadAll(EmptyRegistry, Units, AllOk)
    /\ called = Empty
    /\ nsent = 0
    /\ file_retention_days \in RetentionDays
    /\ vpc = "none"
    /\ cpc = "none"
    /\ stopping = "no"
    /\ sweeps = {}
    /\ saver_logged = FALSE
    /\ wall_clock = 0
    /\ downloads_cache = NoCache
    /\ downloads_cache_time = 0
    /\ last_scan = NoScan
    /\ legacy_pc = "none"
    /\ processed_ids = {}
    /\ legacy_messages = Empty
    /\ legacy_msg = NoMsg
    /\ prev_done = {}
    /\ cur_done = {}

\* constructed with file_retention_days = 0, the default (line 40)
InitNoCleanup == Init /\ file_retention_days = 0

(* ------------------------------------------------------------------ *)
(* Listener, _background_listener.  One action per stretch of code     *)
(* between two awaits; "loop" is the for loop between two messages,    *)
(* where no other task can run.                                        *)
(* ------------------------------------------------------------------ *)
\* lines 160-161: a message has been processed
CountMessage ==
    /\ last_message_time' = 1
    /\ total_messages' = IF total_messages < MaxTotal THEN total_messages + 1
                          ELSE total_messages

\* the listener is not between two messages of a batch: it is suspended at an
\* await, not started, or over
ListenerSuspended == lpc # "loop"

\* history of the idle streak, kept at the end of every cycle
EndCycle(how, idle) ==
    /\ cycle' = how
    /\ streak' = IF idle THEN (IF streak < IdleCap THEN streak + 1 ELSE streak) ELSE 0
    /\ streak_base' = IF idle THEN streak_base ELSE poll_interval'

\* lines 167-171 and 179: the cycle ends without an exception
FinishCycle ==
    /\ poll_interval' = AdjustInterval(poll_interval, had_messages)
    /\ lpc' = "sleep"
    /\ EndCycle("ok", ~had_messages)

\* lines 173-179 with a discard of the key of the message that raised
L_RaiseForgets ==
    /\ lpc \in {"check", "fetch", "download", "process", "send"}
    /\ processed_set' = processed_set \ {UniqueKey(msg)}
    /\ errors' = AddError(errors, ListenerError)
    /\ poll_interval' = FaultInterval(poll_interval)
    /\ lpc' = "sleep"
    /\ EndCycle("raised", FALSE)
    /\ messages' = Empty
    /\ msg' = NoMsg
    /\ reply' = Empty
    /\ UNCHANGED <<processed_order, sent_buffer, had_messages, hpc,
                   is_logged_in, reconnect_attempts, dispatched, undispatched,
                   since, added, skipped_dup, sent_count>>
    /\ UNCHANGED <<tvars, last_heartbeat>>
    /\ UNCHANGED ovars

\* lines 173-179: the cycle ends in the except clause
L_Raise ==
    /\ lpc \in {"check", "fetch", "download", "process", "send"}
    /\ errors' = AddError(errors, ListenerError)
    /\ poll_interval' = FaultInterval(poll_interval)
    /\ lpc' = "sleep"
    /\ EndCycle("raised", FALSE)
    /\ messages' = Empty
    /\ msg' = NoMsg
    /\ reply' = Empty
    /\ UNCHANGED <<processed_order, processed_set, sent_buffer, had_messages, hpc,
                   is_logged_in, reconnect_attempts, dispatched, undispatched,
                   since, added, skipped_dup, sent_count>>
    /\ UNCHANGED <<tvars, last_heartbeat>>
    /\ UNCHANGED ovars

\* lines 119-129: the sleep returns and a cycle begins
L_Wake ==
    /\ lpc = "sleep"
    /\ had_messages' = FALSE
    /\ added' = "none"
    /\ skipped_dup' = FALSE
    /\ lpc' = IF is_logged_in THEN "fetch" ELSE "check"
    /\ UNCHANGED <<processed_order, processed_set, sent_buffer, poll_interval,
                   messages, msg, reply, hpc, svars, dispatched, undispatched,
                   since, sent_count, cycle, streak, streak_base>>
    /\ UNCHANGED <<tvars, last_heartbeat>>
    /\ UNCHANGED ovars

\* lines 123-129 with line 125 left out: the count is not reset
L_CheckNoReset(ok) ==
    /\ lpc = "check"
    /\ is_logged_in' = ok
    /\ IF ok
       THEN /\ lpc' = "fetch"
            /\ UNCHANGED <<poll_interval, cycle, streak, streak_base>>
       ELSE FinishCycle
    /\ UNCHANGED <<processed_order, processed_set, sent_buffer, had_messages,
                   messages, msg, reply, hpc, reconnect_attempts, errors,
                   dispatched, undispatched, since, added, skipped_dup, sent_count>>
    /\ UNCHANGED <<tvars, last_heartbeat>>
    /\ UNCHANGED ovars

\* lines 123-129: check_login_status(poll=True) returns
L_CheckDone(ok) ==
    /\ lpc = "check"
    /\ is_logged_in' = ok
    /\ reconnect_attempts' = IF ok THEN 0 ELSE reconnect_attempts
    /\ IF ok
       THEN /\ lpc' = "fetch"
            /\ UNCHANGED <<poll_interval, cycle, streak, streak_base>>
       ELSE FinishCycle
    /\ UNCHANGED <<processed_order, processed_set, sent_buffer, had_messages,
                   messages, msg, reply, hpc, errors, dispatched, undispatched,
                   since, added, skipped_dup, sent_count>>
    /\ UNCHANGED <<tvars, last_heartbeat>>
    /\ UNCHANGED ovars

\* line 129-131: get_latest_messages returns, newest first
L_FetchDone(batch) ==
    /\ lpc = "fetch"
    /\ messages' = Reverse(batch)
    /\ lpc' = "loop"
    /\ UNCHANGED <<processed_order, processed_set, sent_buffer, poll_interval,
                   had_messages, msg, reply, hpc, svars, gvars>>
    /\ UNCHANGED <<tvars, last_heartbeat>>
    /\ UNCHANGED ovars

\* lines 131-139: a message without key or with a key already seen is skipped
L_Skip ==
    /\ lpc = "loop"
    /\ messages # Empty
    /\ LET m == Head(messages) IN
         UniqueKey(m) = Empty \/ AlreadyProcessed(UniqueKey(m), processed_set)
    /\ messages' = Tail(messages)
    /\ skipped_dup' = (skipped_dup \/ UniqueKey(Head(messages)) \in dispatched)
    /\ UNCHANGED <<lpc, processed_order, processed_set, sent_buffer, poll_interval,
                   had_messages, msg, reply, hpc, svars, dispatched, undispatched,
                   since, added, sent_count, cycle, streak, streak_base>>
    /\ UNCHANGED <<tvars, last_heartbeat>>
    /\ UNCHANGED ovars

\* lines 141-154: a new key is recorded; an echo is dropped, anything else goes
\* to the download or straight into processor.process
L_Accept ==
    /\ lpc = "loop"
    /\ messages # Empty
    /\ LET m == Head(messages)
           k == UniqueKey(m)
           invoked == ~IsEcho(m, sent_buffer) /\ ~NeedsDownload(m)
       IN  /\ k # Empty
           /\ ~AlreadyProcessed(k, processed_set)
           /\ processed_set' = processed_set \cup {k}
           /\ processed_order' = DequeAppend(processed_order, k, ProcessedCap)
           /\ since' = [x \in Keys |->
                          IF x = k /\ invoked THEN 0
                          ELSE IF since[x] < ProcessedCap THEN since[x] + 1
                          ELSE since[x]]
           /\ messages' = Tail(messages)
           /\ IF IsEcho(m, sent_buffer)
              THEN /\ added' = IF added = "none" THEN "echo" ELSE added
                   /\ UNCHANGED <<lpc, had_messages, msg, dispatched, undispatched>>
              ELSE /\ added' = "new"
                   /\ had_messages' = TRUE
                   /\ msg' = m
                   /\ IF NeedsDownload(m)
                      THEN /\ lpc' = "download"
                           /\ undispatched' = undispatched \cup {k}
                           /\ UNCHANGED dispatched
                      ELSE /\ lpc' = "process"
                           /\ dispatched' = dispatched \cup {k}
                           /\ undispatched' = undispatched \ {k}
    /\ UNCHANGED <<sent_buffer, poll_interval, reply, hpc, svars, skipped_dup,
                   sent_count, cycle, streak, streak_base>>
    /\ UNCHANGED <<tvars, last_heartbeat>>
    /\ UNCHANGED ovars

\* lines 151-154: _handle_file_download returns, processor.process is called
L_DownloadDone ==
    /\ lpc = "download"
    /\ lpc' = "process"
    /\ dispatched' = dispatched \cup {UniqueKey(msg)}
    /\ undispatched' = undispatched \ {UniqueKey(msg)}
    /\ since' = [since EXCEPT ![UniqueKey(msg)] = 0]
    /\ UNCHANGED <<processed_order, processed_set, sent_buffer, poll_interval,
                   had_messages, messages, msg, reply, hpc, svars, added,
                   skipped_dup, sent_count, cycle, streak, streak_base>>
    /\ UNCHANGED <<tvars, last_heartbeat>>
    /\ UNCHANGED ovars

\* lines 154-161: processor.process returns r
L_ProcessDone(r) ==
    /\ lpc = "process"
    /\ IF r # Empty
       THEN /\ lpc' = "send"
            /\ reply' = r
            /\ UNCHANGED <<msg, tvars>>
       ELSE /\ lpc' = "loop"
            /\ reply' = Empty
            /\ msg' = NoMsg
            /\ CountMessage
    /\ UNCHANGED <<processed_order, processed_set, sent_buffer, poll_interval,
                   had_messages, messages, hpc, svars, gvars>>
    /\ UNCHANGED last_heartbeat
    /\ UNCHANGED ovars

\* lines 156-161 with line 157 left out: the reply is recorded whatever
\* send_text returned
L_SendRecorded(ok) ==
    /\ lpc = "send"
    /\ sent_buffer' = DequeAppend(sent_buffer, reply, SentCap)
    /\ lpc' = "loop"
    /\ reply' = Empty
    /\ msg' = NoMsg
    /\ CountMessage
    /\ sent_count' = IF ok /\ sent_count <= SentCap THEN sent_count + 1
                      ELSE sent_count
    /\ UNCHANGED <<processed_order, processed_set, poll_interval, had_messages,
                   messages, hpc, svars, dispatched, undispatched, since, added,
                   skipped_dup, cycle, streak, streak_base>>
    /\ UNCHANGED last_heartbeat
    /\ UNCHANGED ovars

\* lines 156-161: send_text returns ok
L_SendDone(ok) ==
    /\ lpc = "send"
    /\ sent_buffer' = IF ok THEN DequeAppend(sent_buffer, reply, SentCap)
                      ELSE sent_buffer
    /\ lpc' = "loop"
    /\ reply' = Empty
    /\ msg' = NoMsg
    /\ CountMessage
    /\ sent_count' = IF ok /\ sent_count <= SentCap THEN sent_count + 1
                      ELSE sent_count
    /\ UNCHANGED <<processed_order, processed_set, poll_interval, had_messages,
                   messages, hpc, svars, dispatched, undispatched, since, added,
                   skipped_dup, cycle, streak, streak_base>>
    /\ UNCHANGED last_heartbeat
    /\ UNCHANGED ovars

\* lines 163-171: the batch is exhausted
L_EndBatch ==
    /\ lpc = "loop"
    /\ messages = Empty
    /\ processed_set' = Resync(processed_set, processed_order)
    /\ FinishCycle
    /\ UNCHANGED <<processed_order, sent_buffer, had_messages, messages, msg, reply,
                   hpc, svars, dispatched, undispatched, since, added, skipped_dup,
                   sent_count>>
    /\ UNCHANGED <<tvars, last_heartbeat>>
    /\ UNCHANGED ovars

(* ------------------------------------------------------------------ *)
(* Heartbeat supervisor, _heartbeat_monitor                            *)
(* ------------------------------------------------------------------ *)
\* lines 220-226 with line 224 left out: the probe is sent on every tick
H_TickProbes ==
    /\ ListenerSuspended
    /\ hpc = "sleep"
    /\ last_heartbeat' = 1
    /\ hpc' = "synccheck"
    /\ UNCHANGED <<lvars, svars, gvars>>
    /\ UNCHANGED tvars
    /\ UNCHANGED ovars

\* lines 220-226: the sleep returns; the probe is sent only when logged in
H_Tick ==
    /\ ListenerSuspended
    /\ hpc = "sleep"
    /\ last_heartbeat' = 1
    /\ hpc' = IF is_logged_in THEN "synccheck" ELSE "sleep"
    /\ UNCHANGED <<lvars, svars, gvars>>
    /\ UNCHANGED tvars
    /\ UNCHANGED ovars

\* lines 226-240: _synccheck returns status
H_SyncDone(status) ==
    /\ ListenerSuspended
    /\ hpc = "synccheck"
    /\ IF status = "loginout"
       THEN /\ is_logged_in' = FALSE
            /\ reconnect_attempts' = reconnect_attempts + 1
            /\ IF MayReconnect(reconnect_attempts + 1)
               THEN /\ hpc' = "delay"
                    /\ UNCHANGED errors
               ELSE /\ errors' = AddError(errors, MaxReconnectError)
                    /\ hpc' = "sleep"
       ELSE /\ hpc' = "sleep"
            /\ UNCHANGED svars
    /\ UNCHANGED <<lvars, gvars>>
    /\ UNCHANGED <<tvars, last_heartbeat>>
    /\ UNCHANGED ovars

\* lines 233-235: the reconnect delay is over, _load_session is called
H_DelayDone ==
    /\ ListenerSuspended
    /\ hpc = "delay"
    /\ hpc' = "load"
    /\ UNCHANGED <<lvars, svars, gvars>>
    /\ UNCHANGED <<tvars, last_heartbeat>>
    /\ UNCHANGED ovars

\* lines 235-236: _load_session returns, check_login_status is called
H_LoadDone ==
    /\ ListenerSuspended
    /\ hpc = "load"
    /\ hpc' = "hcheck"
    /\ UNCHANGED <<lvars, svars, gvars>>
    /\ UNCHANGED <<tvars, last_heartbeat>>
    /\ UNCHANGED ovars

\* line 236 followed by the reset of line 125: a check that succeeds in the
\* heartbeat clears the count
H_CheckResets(ok) ==
    /\ ListenerSuspended
    /\ hpc = "hcheck"
    /\ is_logged_in' = ok
    /\ reconnect_attempts' = IF ok THEN 0 ELSE reconnect_attempts
    /\ hpc' = "sleep"
    /\ UNCHANGED <<lvars, errors, gvars>>
    /\ UNCHANGED <<tvars, last_heartbeat>>
    /\ UNCHANGED ovars

\* line 236: check_login_status(poll=True) returns
H_CheckDone(ok) ==
    /\ ListenerSuspended
    /\ hpc = "hcheck"
    /\ is_logged_in' = ok
    /\ hpc' = "sleep"
    /\ UNCHANGED <<lvars, reconnect_attempts, errors, gvars>>
    /\ UNCHANGED <<tvars, last_heartbeat>>
    /\ UNCHANGED ovars

\* lines 242-243: a transport call of the tick raises
H_Raise ==
    /\ ListenerSuspended
    /\ hpc \in {"synccheck", "load", "hcheck"}
    /\ errors' = AddError(errors, HeartbeatError)
    /\ hpc' = "sleep"
    /\ UNCHANGED <<lvars, is_logged_in, reconnect_attempts, gvars>>
    /\ UNCHANGED <<tvars, last_heartbeat>>
    /\ UNCHANGED ovars

(* ------------------------------------------------------------------ *)
(* Life cycle of the loops: start_all, stop_all, session saver, file   *)
(* cleanup.  A loop is "none" before it is created, "cancelled" while  *)
(* a cancellation is on its way to it, and "done" when it is over.     *)
(* ------------------------------------------------------------------ *)
nonloop == <<sendvars, taskvars, thist, pvars, xvars>>

\* where loop t is
Pc(t) ==
    CASE t = "listener" -> lpc
      [] t = "saver" -> vpc
      [] t = "heartbeat" -> hpc
      [] t = "cleanup" -> cpc

\* loop t goes to pc, the others stay where they are
SetPc(t, pc) ==
    /\ lpc' = IF t = "listener" THEN pc ELSE lpc
    /\ vpc' = IF t = "saver" THEN pc ELSE vpc
    /\ hpc' = IF t = "heartbeat" THEN pc ELSE hpc
    /\ cpc' = IF t = "cleanup" THEN pc ELSE cpc

\* lines 61-68: the loops are created
start_all ==
    /\ lpc = "none"
    /\ stopping = "no"
    /\ lpc' = "sleep"
    /\ vpc' = "sleep"
    /\ hpc' = "sleep"
    /\ cpc' = IF StartsCleanup(file_retention_days) THEN "sleep" ELSE "none"
    /\ UNCHANGED <<processed_order, processed_set, sent_buffer, poll_interval,
                   had_messages, messages, msg, reply>>
    /\ UNCHANGED <<svars, tvars, last_heartbeat, gvars>>
    /\ UNCHANGED <<file_retention_days, stopping, sweeps, saver_logged>>
    /\ UNCHANGED nonloop

\* lines 209-213: the sleep of the session saver returns
V_Wake ==
    /\ ListenerSuspended
    /\ vpc = "sleep"
    /\ vpc' = IF is_logged_in THEN "save" ELSE "sleep"
    /\ UNCHANGED <<lvars, hpc, svars, tvars, last_heartbeat, gvars>>
    /\ UNCHANGED <<file_retention_days, cpc, stopping, sweeps, saver_logged>>
    /\ UNCHANGED nonloop

\* line 213: save_session returns
V_SaveDone ==
    /\ ListenerSuspended
    /\ vpc = "save"
    /\ vpc' = "sleep"
    /\ UNCHANGED <<lvars, hpc, svars, tvars, last_heartbeat, gvars>>
    /\ UNCHANGED <<file_retention_days, cpc, stopping, sweeps, saver_logged>>
    /\ UNCHANGED nonloop

\* lines 211-215 without the try: the exception ends the loop
V_Escape ==
    /\ ListenerSuspended
    /\ vpc = "save"
    /\ vpc' = "done"
    /\ UNCHANGED <<lvars, hpc, svars, tvars, last_heartbeat, gvars>>
    /\ UNCHANGED <<file_retention_days, cpc, stopping, sweeps, saver_logged>>
    /\ UNCHANGED nonloop

\* lines 214-215: save_session raises
V_Raise ==
    /\ ListenerSuspended
    /\ vpc = "save"
    /\ vpc' = "sleep"
    /\ saver_logged' = TRUE
    /\ UNCHANGED <<lvars, hpc, svars, tvars, last_heartbeat, gvars>>
    /\ UNCHANGED <<file_retention_days, cpc, stopping, sweeps>>
    /\ UNCHANGED nonloop

\* lines 248-257: the sleep of the cleanup returns and cleanup_old_files is
\* called; it returns or raises before the next await
C_Sweep(how) ==
    /\ ListenerSuspended
    /\ cpc = "sleep"
    /\ sweeps' = sweeps \cup {SweepCall(file_retention_days)}
    /\ errors' = IF how = "raise" THEN AddError(errors, CleanupError) ELSE errors
    /\ UNCHANGED <<lvars, hpc, is_logged_in, reconnect_attempts, tvars,
                   last_heartbeat, gvars>>
    /\ UNCHANGED <<file_retention_days, vpc, cpc, stopping, saver_logged>>
    /\ UNCHANGED nonloop

\* the started loops from the i-th handle on
StartedFrom(i) == { j \in i..Len(LoopOrder) : Pc(LoopOrder[j]) # "none" }

\* lines 78-82: from the i-th handle on, the handles that are None are passed
\* over, the first loop found is cancelled and awaited; with none left
\* stop_all returns
stop_next(i) ==
    /\ IF StartedFrom(i) = {}
       THEN /\ stopping' = "returned"
            /\ UNCHANGED <<lpc, vpc, hpc, cpc>>
       ELSE LET j == CHOOSE j \in StartedFrom(i) : \A k \in StartedFrom(i) : j <= k
            IN  /\ SetPc(LoopOrder[j], "cancelled")
                /\ stopping' = LoopOrder[j]
    /\ UNCHANGED <<processed_order, processed_set, sent_buffer, poll_interval,
                   had_messages, messages, msg, reply>>
    /\ UNCHANGED <<svars, tvars, last_heartbeat, gvars>>
    /\ UNCHANGED <<file_retention_days, sweeps, saver_logged>>
    /\ UNCHANGED nonloop

\* lines 70-82: stop_all is called once the loops were started
stop_all ==
    /\ ListenerSuspended
    /\ stopping = "no"
    /\ lpc # "none"
    /\ stop_next(1)

\* lines 82-84: the awaited loop is over, stop_all goes on
stop_resume ==
    /\ ListenerSuspended
    /\ stopping \in Loops
    /\ Awaited(Pc(stopping))
    /\ stop_next(1 + CHOOSE j \in 1..Len(LoopOrder) : LoopOrder[j] = stopping)

\* the cancellation reaches loop t at the await it is suspended at;
\* CancelledError is not an Exception, no except clause of a loop catches it
\* (lines 173, 214, 242, 256) and the loop is over
observe_cancel(t) ==
    /\ ListenerSuspended
    /\ Pc(t) = "cancelled"
    /\ SetPc(t, "done")
    /\ UNCHANGED <<processed_order, processed_set, sent_buffer, poll_interval,
                   had_messages, messages, msg, reply>>
    /\ UNCHANGED <<svars, tvars, last_heartbeat, gvars>>
    /\ UNCHANGED <<file_retention_days, stopping, sweeps, saver_logged>>
    /\ UNCHANGED nonloop

(* ------------------------------------------------------------------ *)
(* Sends, bot.py send_text / send_file.  One action per stretch of     *)
(* code between two awaits of one caller.                              *)
(* ------------------------------------------------------------------ *)
\* the send of caller c returns r; r = "none" is a cancelled send
Return(c, r) ==
    /\ spc' = [spc EXCEPT ![c] = "idle"]
    /\ skind' = [skind EXCEPT ![c] = "none"]
    /\ sresult' = [sresult EXCEPT ![c] = r]

\* lines 102-106, 126-146: the file is looked up, then `async with self.lock`
\* is entered, at once or by queueing
EnterGate(c, kind) ==
    IF kind = "nofile"
    THEN /\ Return(c, "false")
         /\ UNCHANGED <<lock, waiters>>
    ELSE /\ skind' = [skind EXCEPT ![c] = kind]
         /\ UNCHANGED sresult
         /\ IF CanAcquire(lock, waiters)
            THEN /\ lock' = c
                 /\ spc' = [spc EXCEPT ![c] = Head(StepsOf(kind))]
                 /\ UNCHANGED waiters
            ELSE /\ waiters' = Append(waiters, c)
                 /\ spc' = [spc EXCEPT ![c] = "wait"]
                 /\ UNCHANGED lock

\* lines 96-102, 120-130: send_text or send_file is called
S_Call(c, kind) ==
    /\ spc[c] = "idle"
    /\ IF is_logged_in
       THEN EnterGate(c, kind)
       ELSE /\ spc' = [spc EXCEPT ![c] = "lcount"]
            /\ skind' = [skind EXCEPT ![c] = kind]
            /\ UNCHANGED <<lock, waiters, sresult>>
    /\ UNCHANGED <<lvars, hpc, svars, tvars, last_heartbeat, gvars>>
    /\ UNCHANGED <<taskvars, thist, pvars, lifevars, xvars>>

\* lines 85-94, 99-100: input_locator.count() returns; nothing found, or an
\* exception, is a failed login check
S_LoginCount(c, found) ==
    /\ spc[c] = "lcount"
    /\ IF found
       THEN /\ spc' = [spc EXCEPT ![c] = "lvisible"]
            /\ UNCHANGED <<skind, sresult, is_logged_in>>
       ELSE /\ is_logged_in' = FALSE
            /\ Return(c, "false")
    /\ UNCHANGED <<lock, waiters>>
    /\ UNCHANGED <<lvars, hpc, reconnect_attempts, errors, tvars, last_heartbeat, gvars>>
    /\ UNCHANGED <<taskvars, thist, pvars, lifevars, xvars>>

\* lines 87-94, 99-106: input_locator.is_visible() returns
S_LoginVisible(c, visible) ==
    /\ spc[c] = "lvisible"
    /\ is_logged_in' = visible
    /\ IF visible
       THEN EnterGate(c, skind[c])
       ELSE /\ Return(c, "false")
            /\ UNCHANGED <<lock, waiters>>
    /\ UNCHANGED <<lvars, hpc, reconnect_attempts, errors, tvars, last_heartbeat, gvars>>
    /\ UNCHANGED <<taskvars, thist, pvars, lifevars, xvars>>

\* lines 102, 130: the lock was released and the oldest waiter takes it
S_Acquired(c) ==
    /\ spc[c] = "wait"
    /\ lock = "free"
    /\ waiters # Empty
    /\ Head(waiters) = c
    /\ lock' = c
    /\ waiters' = Tail(waiters)
    /\ spc' = [spc EXCEPT ![c] = Head(StepsOf(skind[c]))]
    /\ UNCHANGED <<skind, sresult>>
    /\ UNCHANGED <<lvars, hpc, svars, tvars, last_heartbeat, gvars>>
    /\ UNCHANGED <<taskvars, thist, pvars, lifevars, xvars>>

\* lines 104-118, 146-185 with the lock acquired by hand and released only
\* after the last await: a send that returns False keeps it
S_StepKeepsLock(c, how) ==
    /\ spc[c] \in GateSteps
    /\ how = "absent" => spc[c] = "count"
    /\ LET nxt == NextStep(skind[c], spc[c]) IN
         IF how = "ok" /\ nxt # "done"
         THEN /\ spc' = [spc EXCEPT ![c] = nxt]
              /\ UNCHANGED <<skind, sresult, lock>>
         ELSE /\ Return(c, IF how = "ok" THEN "true" ELSE "false")
              /\ lock' = IF how = "ok" THEN "free" ELSE lock
    /\ UNCHANGED waiters
    /\ UNCHANGED <<lvars, hpc, svars, tvars, last_heartbeat, gvars>>
    /\ UNCHANGED <<taskvars, thist, pvars, lifevars, xvars>>

\* lines 104-118, 146-185: one await inside the lock returns.  how = "ok": it
\* returned; "raise": it raised, the except clause returns False; "absent":
\* file_input.count() found no input, the send returns False.  Leaving the
\* `async with` releases the lock.
S_Step(c, how) ==
    /\ spc[c] \in GateSteps
    /\ how = "absent" => spc[c] = "count"
    /\ LET nxt == NextStep(skind[c], spc[c]) IN
         IF how = "ok" /\ nxt # "done"
         THEN /\ spc' = [spc EXCEPT ![c] = nxt]
              /\ UNCHANGED <<skind, sresult, lock>>
         ELSE /\ Return(c, IF how = "ok" THEN "true" ELSE "false")
              /\ lock' = "free"
    /\ UNCHANGED waiters
    /\ UNCHANGED <<lvars, hpc, svars, tvars, last_heartbeat, gvars>>
    /\ UNCHANGED <<taskvars, thist, pvars, lifevars, xvars>>

\* the coroutine of caller c is cancelled at its await (main.py:70-75): the
\* CancelledError leaves the `async with`, or the queue of the lock
S_Cancel(c) ==
    /\ spc[c] # "idle"
    /\ Return(c, "none")
    /\ lock' = IF spc[c] \in GateSteps THEN "free" ELSE lock
    /\ waiters' = SelectSeq(waiters, LAMBDA w : w # c)
    /\ UNCHANGED <<lvars, hpc, svars, tvars, last_heartbeat, gvars>>
    /\ UNCHANGED <<taskvars, thist, pvars, lifevars, xvars>>

(* ------------------------------------------------------------------ *)
(* Scheduled tasks.  The table operations and the clock check stand    *)
(* for processor.py; the two management surfaces are                   *)
(* routes/framework.py and the /task command of plugins/builtin.py.    *)
(* ------------------------------------------------------------------ *)
\* what the task subsystem never touches
nontask == <<lvars, hpc, svars, tvars, last_heartbeat, gvars, sendvars, pvars,
            lifevars, xvars>>

Min2(a, b) == IF a < b THEN a ELSE b

\* a step that is no clock check and no clock advance
NoClockStep == UNCHANGED <<clock, fired_now, fired_total, checks_now>>

\* add_task on a valid time: one task under a fresh id
add_task(time_hm, command_text) ==
    /\ tasks' = [i \in DOMAIN tasks \cup {next_id} |->
                    IF i = next_id THEN NewTask(time_hm, command_text) ELSE tasks[i]]
    /\ next_id' = next_id + 1
    /\ issued' = issued \cup {next_id}

\* delete_task on a known id
delete_task(task_id) ==
    /\ tasks' = [i \in DOMAIN tasks \ {task_id} |-> tasks[i]]
    /\ UNCHANGED <<next_id, issued>>

\* set_task_enabled on a known id
set_task_enabled(task_id, enabled) ==
    /\ tasks' = [tasks EXCEPT ![task_id].enabled = enabled]
    /\ UNCHANGED <<next_id, issued>>

\* run_task_now on a known id: the command text goes through the pipeline,
\* whatever the enabled flag
run_task_now(task_id) ==
    /\ task_runs' = {[id |-> task_id, trigger |-> "manual",
                      command |-> tasks[task_id].command_text]}
    /\ UNCHANGED <<tasks, next_id, issued>>

TableUnchanged == UNCHANGED <<tasks, next_id, issued>>

\* the clock check of the scheduler loop: every due task is run once and
\* remembers the minute it fired in
scheduler_check ==
    LET hm == ClockMinutes[clock.min]
        due == { i \in DOMAIN tasks : Due(tasks[i], clock.day, hm) }
    IN  /\ tasks' = [i \in DOMAIN tasks |->
                        IF i \in due
                        THEN [tasks[i] EXCEPT !.last_key = <<clock.day, hm>>]
                        ELSE tasks[i]]
        /\ task_runs' = { [id |-> i, trigger |-> "schedule",
                           command |-> tasks[i].command_text] : i \in due }
        /\ fired_now' = [i \in DOMAIN fired_now |->
                            IF i \in due THEN Min2(fired_now[i] + 1, 2) ELSE fired_now[i]]
        /\ fired_total' = [i \in DOMAIN fired_total |->
                            IF i \in due THEN Min2(fired_total[i] + 1, MaxDay)
                            ELSE fired_total[i]]
        /\ checks_now' = Min2(checks_now + 1, 2)
        /\ UNCHANGED <<next_id, clock, resp, issued>>
        /\ UNCHANGED nontask

\* the local time passes into the next minute
clock_minute ==
    /\ clock.min < Len(ClockMinutes) \/ clock.day < MaxDay
    /\ clock' = IF clock.min < Len(ClockMinutes)
                THEN [clock EXCEPT !.min = clock.min + 1]
                ELSE [day |-> clock.day + 1, min |-> 1]
    /\ fired_now' = [i \in DOMAIN fired_now |-> 0]
    /\ checks_now' = 0
    /\ task_runs' = {}
    /\ UNCHANGED <<tasks, next_id, resp, issued, fired_total>>
    /\ UNCHANGED nontask

\* framework.py 115-118: GET /framework/tasks
framework_tasks ==
    /\ resp' = Api(200, "tasks", 0, list_tasks(tasks))
    /\ task_runs' = {}
    /\ TableUnchanged
    /\ NoClockStep
    /\ UNCHANGED nontask

\* framework.py 71-74, 121-132: POST /framework/tasks.  The payload is
\* validated (422), then add_task may raise (400).
framework_add_task(time_hm, command) ==
    /\ next_id <= MaxTasks
    /\ IF ~(TimePattern(time_hm) /\ CommandPattern(command))
       THEN /\ resp' = Api(422, "validation error", 0, Empty)
            /\ TableUnchanged
       ELSE IF ~ValidTimeHM(time_hm)
       THEN /\ resp' = Api(400, "invalid time", 0, Empty)
            /\ TableUnchanged
       ELSE /\ add_task(time_hm, command)
            /\ resp' = Api(200, "ok", next_id, Empty)
    /\ task_runs' = {}
    /\ NoClockStep
    /\ UNCHANGED nontask

\* lines 138-140 with the test of ok inverted
delete_task_inverted(task_id) ==
    /\ IF task_id \in DOMAIN tasks
       THEN /\ delete_task(task_id)
            /\ resp' = Api(404, "task not found", 0, Empty)
       ELSE /\ TableUnchanged
            /\ resp' = Api(200, "deleted", task_id, Empty)
    /\ task_runs' = {}
    /\ NoClockStep
    /\ UNCHANGED nontask

\* framework.py 135-141: DELETE /framework/tasks/{task_id}
framework_delete_task(task_id) ==
    /\ IF task_id \in DOMAIN tasks
       THEN /\ delete_task(task_id)
            /\ resp' = Api(200, "deleted", task_id, Empty)
       ELSE /\ TableUnchanged
            /\ resp' = Api(404, "task not found", 0, Empty)
    /\ task_runs' = {}
    /\ NoClockStep
    /\ UNCHANGED nontask

\* lines 149-152 with the test of ok left out
set_enabled_unchecked(task_id, enabled) ==
    /\ IF task_id \in DOMAIN tasks
       THEN set_task_enabled(task_id, enabled)
       ELSE TableUnchanged
    /\ resp' = Api(200, "ok", task_id, Empty)
    /\ task_runs' = {}
    /\ NoClockStep
    /\ UNCHANGED nontask

\* framework.py 144-152: POST /framework/tasks/{task_id}/enabled
framework_set_task_enabled(task_id, enabled) ==
    /\ IF task_id \in DOMAIN tasks
       THEN /\ set_task_enabled(task_id, enabled)
            /\ resp' = Api(200, "ok", task_id, Empty)
       ELSE /\ TableUnchanged
            /\ resp' = Api(404, "task not found", 0, Empty)
    /\ task_runs' = {}
    /\ NoClockStep
    /\ UNCHANGED nontask

\* lines 158-161 running the task only when it is enabled
run_only_enabled(task_id) ==
    /\ IF task_id \in DOMAIN tasks /\ tasks[task_id].enabled
       THEN /\ run_task_now(task_id)
            /\ resp' = Api(200, "ok", task_id, Empty)
       ELSE /\ TableUnchanged
            /\ task_runs' = {}
            /\ resp' = Api(404, "task not found", 0, Empty)
    /\ NoClockStep
    /\ UNCHANGED nontask

\* framework.py 155-161: POST /framework/tasks/{task_id}/run
framework_run_task(task_id) ==
    /\ IF task_id \in DOMAIN tasks
       THEN /\ run_task_now(task_id)
            /\ resp' = Api(200, "ok", task_id, Empty)
       ELSE /\ TableUnchanged
            /\ task_runs' = {}
            /\ resp' = Api(404, "task not found", 0, Empty)
    /\ NoClockStep
    /\ UNCHANGED nontask

\* builtin.py 118-164: /task with n tokens after it, of which tok is the
\* first, and task_id or time_hm the second; the command text of an add is
\* "/status"
cmd_task(tok, n, task_id, time_hm) ==
    LET action == Lower(tok)
        known == task_id \in DOMAIN tasks
        adds == n >= 1 /\ action = "add" /\ n >= 3 /\ ValidTimeHM(time_hm)
        deletes == n >= 2 /\ action \in {"del", "delete", "rm"} /\ known
        toggles == n >= 2 /\ action \in {"on", "off"} /\ known
        runs == n >= 2 /\ action = "run" /\ known
    IN  /\ adds => next_id <= MaxTasks
        /\ resp' =
             IF n = 0 THEN Chat("task help", 0, Empty)
             ELSE IF action = "list"
             THEN (IF DOMAIN tasks = {} THEN Chat("no tasks", 0, Empty)
                   ELSE Chat("task list", 0, list_tasks(tasks)))
             ELSE IF action = "add"
             THEN (IF n < 3 THEN Chat("usage: add", 0, Empty)
                   ELSE IF ~ValidTimeHM(time_hm) THEN Chat("add failed", 0, Empty)
                   ELSE Chat("task added", next_id, Empty))
             ELSE IF action \in {"del", "delete", "rm"}
             THEN (IF n < 2 THEN Chat("usage: del", 0, Empty)
                   ELSE IF known THEN Chat("deleted", 0, Empty)
                   ELSE Chat("task does not exist", 0, Empty))
             ELSE IF action \in {"on", "off"}
             THEN (IF n < 2 THEN Chat("usage: on|off", 0, Empty)
                   ELSE IF known THEN Chat("updated", 0, Empty)
                   ELSE Chat("task does not exist", 0, Empty))
             ELSE IF action = "run"
             THEN (IF n < 2 THEN Chat("usage: run", 0, Empty)
                   ELSE IF known THEN Chat("task executed", 0, Empty)
                   ELSE Chat("task does not exist", 0, Empty))
             ELSE Chat("task help", 0, Empty)
        /\ IF adds THEN add_task(time_hm, "/status")
           ELSE IF deletes THEN delete_task(task_id)
           ELSE IF toggles THEN set_task_enabled(task_id, action = "on")
           ELSE TableUnchanged
        /\ IF runs
           THEN task_runs' = {[id |-> task_id, trigger |-> "manual",
                               command |-> tasks[task_id].command_text]}
           ELSE task_runs' = {}
        /\ NoClockStep
        /\ UNCHANGED nontask

(* ------------------------------------------------------------------ *)
(* Plugin loader and dispatch pipeline.  The loader and the pipeline   *)
(* stand for plugin_loader.py and processor.py; their callers are      *)
(* routes/framework.py, plugins/builtin.py and background.py.          *)
(* ------------------------------------------------------------------ *)
\* what the plugin loader and the pipeline never touch
nonplug == <<lvars, hpc, svars, tvars, last_heartbeat, gvars, sendvars, taskvars,
            thist, lifevars, xvars>>

\* a reader looks at the registry
Looks ==
    /\ seen' = registry
    /\ expected' = last_complete

\* the file of a plugin unit is changed on disk
edit_unit(u, h) ==
    /\ rpc = "idle"
    /\ health[u] # h
    /\ health' = [health EXCEPT ![u] = h]
    /\ UNCHANGED <<registry, loaded_plugins, load_errors, rpc, rqueue, pstatus>>
    /\ UNCHANGED <<dispvars, phist>>
    /\ UNCHANGED nonplug

\* framework.py 173-176 (via = "api"), builtin.py 197-199 (via = "chat", the
\* handler of /reload): reload_all begins by clearing what is registered
reload_begin(via) ==
    /\ rpc = "idle"
    /\ via = "chat" => dpc = "command" /\ dcmd = "reload"
    /\ registry' = EmptyRegistry
    /\ loaded_plugins' = Empty
    /\ load_errors' = Empty
    /\ rqueue' = Units
    /\ rpc' = via
    /\ UNCHANGED <<health, pstatus>>
    /\ UNCHANGED <<dispvars, phist>>
    /\ UNCHANGED nonplug

\* reload_all loads the next unit; a unit that fails is recorded and the
\* scan goes on.  After the last unit the caller reads get_status
\* (framework.py 177, builtin.py 200-201).
reload_unit ==
    /\ rpc # "idle"
    /\ rqueue # Empty
    /\ LET u == Head(rqueue)
           reg == IF UnitLoads(u, health) THEN Register(registry, u) ELSE registry
           loaded == IF UnitLoads(u, health) THEN Append(loaded_plugins, u)
                     ELSE loaded_plugins
           errs == IF UnitLoads(u, health) THEN load_errors
                   ELSE Append(load_errors, [file |-> u, error |-> health[u]])
           last == Tail(rqueue) = Empty
       IN  /\ registry' = reg
           /\ loaded_plugins' = loaded
           /\ load_errors' = errs
           /\ rqueue' = Tail(rqueue)
           /\ rpc' = IF last THEN "idle" ELSE rpc
           /\ pstatus' = IF last THEN get_status(reg, loaded, errs) ELSE pstatus
           /\ last_complete' = IF last THEN reg ELSE last_complete
           /\ IF last /\ rpc = "chat"
              THEN /\ dreply' = "reloaded"
                   /\ dpc' = "reply"
                   /\ UNCHANGED <<dtext, dcmd, dchain>>
              ELSE UNCHANGED dispvars
    /\ UNCHANGED <<health, seen, expected, called, nsent>>
    /\ UNCHANGED nonplug

\* framework.py 167-170: GET /plugins
list_plugins ==
    /\ NoAwaitInReload(rpc)
    /\ pstatus' = get_status(registry, loaded_plugins, load_errors)
    /\ Looks
    /\ UNCHANGED <<health, registry, loaded_plugins, load_errors, rpc, rqueue>>
    /\ UNCHANGED <<dispvars, last_complete, called, nsent>>
    /\ UNCHANGED nonplug

\* background.py 154: processor.process(msg) is called.  A command text
\* whose token resolves goes to the command handler, anything else to the
\* handler chain.
process_begin(text) ==
    /\ NoAwaitInReload(rpc)
    /\ dpc = "idle"
    /\ Looks
    /\ dtext' = text
    /\ dreply' = ""
    /\ called' = Empty
    /\ nsent' = 0
    /\ LET cmd == IF IsCommandText(text) THEN Resolve(registry, CommandToken(text))
                  ELSE "none"
           chain == ByPriority(registry.handlers)
       IN  /\ dcmd' = cmd
           /\ dchain' = IF cmd = "none" THEN chain ELSE Empty
           /\ dpc' = IF cmd # "none" THEN "command"
                     ELSE IF chain # Empty THEN "chain" ELSE "reply"
    /\ UNCHANGED <<plugvars, last_complete>>
    /\ UNCHANGED nonplug

\* the handler of the command returns
command_done ==
    /\ NoAwaitInReload(rpc)
    /\ dpc = "command"
    /\ dcmd # "reload"
    /\ dreply' = CommandReply(dcmd)
    /\ dpc' = "reply"
    /\ UNCHANGED <<dtext, dcmd, dchain>>
    /\ UNCHANGED <<plugvars, phist>>
    /\ UNCHANGED nonplug

\* the next handler of the chain returns r; a reply ends the chain
handler_done(r) ==
    /\ NoAwaitInReload(rpc)
    /\ dpc = "chain"
    /\ called' = Append(called, Head(dchain))
    /\ IF r # ""
       THEN /\ dreply' = r
            /\ dchain' = Empty
            /\ dpc' = "reply"
       ELSE /\ dreply' = ""
            /\ dchain' = Tail(dchain)
            /\ dpc' = IF Tail(dchain) = Empty THEN "reply" ELSE "chain"
    /\ UNCHANGED <<dtext, dcmd>>
    /\ UNCHANGED <<plugvars, seen, expected, last_complete, nsent>>
    /\ UNCHANGED nonplug

\* lines 155-156 without the test of the reply
deliver_always ==
    /\ NoAwaitInReload(rpc)
    /\ dpc = "reply"
    /\ nsent' = nsent + 1
    /\ dpc' = "idle"
    /\ UNCHANGED <<dtext, dcmd, dchain, dreply>>
    /\ UNCHANGED <<plugvars, seen, expected, last_complete, called>>
    /\ UNCHANGED nonplug

\* background.py 155-158: a reply that is not empty is sent
deliver ==
    /\ NoAwaitInReload(rpc)
    /\ dpc = "reply"
    /\ nsent' = IF dreply # "" THEN nsent + 1 ELSE nsent
    /\ dpc' = "idle"
    /\ UNCHANGED <<dtext, dcmd, dchain, dreply>>
    /\ UNCHANGED <<plugvars, seen, expected, last_complete, called>>
    /\ UNCHANGED nonplug

(* ------------------------------------------------------------------ *)
(* Downloads cache, routes/files.py.  _scan_downloads and              *)
(* invalidate_downloads_cache contain no await: one action each.       *)
(* ------------------------------------------------------------------ *)
\* what the downloads cache and the listener of main.py never touch
nonx == <<lvars, hpc, svars, tvars, last_heartbeat, gvars, sendvars, taskvars,
         thist, pvars, lifevars>>

\* a second passes
clock_second ==
    /\ wall_clock < MaxClock
    /\ wall_clock' = wall_clock + 1
    /\ UNCHANGED <<downloads_cache, downloads_cache_time, last_scan>>
    /\ UNCHANGED legacyvars
    /\ UNCHANGED nonx

\* lines 47-104
scan_downloads(include_subdirs) ==
    /\ LET key == cache_key(include_subdirs) IN
         IF InCache(downloads_cache, key) /\ Fresh(downloads_cache_time, wall_clock)
         THEN /\ last_scan' = [key |-> key, scanned |-> downloads_cache.files[key],
                               at |-> wall_clock, cached |-> TRUE]
              /\ UNCHANGED <<downloads_cache, downloads_cache_time>>
         ELSE /\ downloads_cache' = Store(downloads_cache, key, wall_clock)
              /\ downloads_cache_time' = wall_clock
              /\ last_scan' = [key |-> key, scanned |-> wall_clock,
                               at |-> wall_clock, cached |-> FALSE]
    /\ UNCHANGED wall_clock
    /\ UNCHANGED legacyvars
    /\ UNCHANGED nonx

\* lines 107-110
invalidate_downloads_cache ==
    /\ downloads_cache' = NoCache
    /\ UNCHANGED <<wall_clock, downloads_cache_time, last_scan>>
    /\ UNCHANGED legacyvars
    /\ UNCHANGED nonx

(* ------------------------------------------------------------------ *)
(* The listener of main.py, background_listener.  One action per       *)
(* stretch of code between two awaits; "loop" is the for loop between  *)
(* two messages, where no other task can run.                          *)
(* ------------------------------------------------------------------ *)
\* what the listener of main.py leaves alone besides its own variables
nonlegacy == <<lvars, hpc, tvars, last_heartbeat, gvars, sendvars, taskvars,
              thist, pvars, lifevars, filevars>>

\* main.py lines 26-28, 54: a cycle begins, or is over at once when the bot
\* is not logged in
LegacyBegin ==
    /\ legacy_pc' = IF is_logged_in THEN "fetch" ELSE "sleep"
    /\ UNCHANGED <<processed_ids, legacy_messages, legacy_msg, prev_done, cur_done>>
    /\ UNCHANGED svars
    /\ UNCHANGED nonlegacy

\* main.py lines 64-66, 17-28: lifespan creates the task
lifespan_start ==
    /\ legacy_pc = "none"
    /\ LegacyBegin

\* main.py line 54: the sleep returns
G_Wake ==
    /\ legacy_pc = "sleep"
    /\ LegacyBegin

\* main.py lines 85-88, bot.py check_login_status: a request handler has the
\* login state looked up
check_login_status(ok) ==
    /\ legacy_pc # "loop"
    /\ is_logged_in' = ok
    /\ UNCHANGED <<reconnect_attempts, errors>>
    /\ UNCHANGED legacyvars
    /\ UNCHANGED nonlegacy

\* main.py lines 28-31: get_latest_messages returns, newest first
G_FetchDone(batch) ==
    /\ legacy_pc = "fetch"
    /\ legacy_messages' = Reverse(batch)
    /\ legacy_pc' = "loop"
    /\ prev_done' = cur_done
    /\ cur_done' = {}
    /\ UNCHANGED <<processed_ids, legacy_msg>>
    /\ UNCHANGED svars
    /\ UNCHANGED nonlegacy

\* main.py lines 31-39: a message without key or with a key in processed_ids
\* is passed over
G_Skip ==
    /\ legacy_pc = "loop"
    /\ legacy_messages # Empty
    /\ LET k == LegacyKey(Head(legacy_messages)) IN
         k = Empty \/ k \in processed_ids
    /\ legacy_messages' = Tail(legacy_messages)
    /\ UNCHANGED <<legacy_pc, processed_ids, legacy_msg, prev_done, cur_done>>
    /\ UNCHANGED svars
    /\ UNCHANGED nonlegacy

\* main.py lines 39-46: a new key is added, the set is cut back, and
\* command_processor.process is called
G_Accept(x) ==
    /\ legacy_pc = "loop"
    /\ legacy_messages # Empty
    /\ LET m == Head(legacy_messages)
           k == LegacyKey(m)
       IN  /\ k # Empty
           /\ k \notin processed_ids
           /\ x \in processed_ids \cup {k}
           /\ processed_ids' = Pop(processed_ids \cup {k}, x)
           /\ legacy_msg' = m
           /\ cur_done' = cur_done \cup {k}
    /\ legacy_messages' = Tail(legacy_messages)
    /\ legacy_pc' = "process"
    /\ UNCHANGED prev_done
    /\ UNCHANGED svars
    /\ UNCHANGED nonlegacy

\* main.py lines 46-49: command_processor.process returns r
G_ProcessDone(r) ==
    /\ legacy_pc = "process"
    /\ legacy_pc' = IF r # Empty THEN "send" ELSE "loop"
    /\ legacy_msg' = IF r # Empty THEN legacy_msg ELSE NoMsg
    /\ UNCHANGED <<processed_ids, legacy_messages, prev_done, cur_done>>
    /\ UNCHANGED svars
    /\ UNCHANGED nonlegacy

\* main.py line 49: send_text returns; its result is not looked at
G_SendDone ==
    /\ legacy_pc = "send"
    /\ legacy_pc' = "loop"
    /\ legacy_msg' = NoMsg
    /\ UNCHANGED <<processed_ids, legacy_messages, prev_done, cur_done>>
    /\ UNCHANGED svars
    /\ UNCHANGED nonlegacy

\* main.py lines 31, 54: the batch is exhausted
G_EndBatch ==
    /\ legacy_pc = "loop"
    /\ legacy_messages = Empty
    /\ legacy_pc' = "sleep"
    /\ UNCHANGED <<processed_ids, legacy_messages, legacy_msg, prev_done, cur_done>>
    /\ UNCHANGED svars
    /\ UNCHANGED nonlegacy

\* main.py lines 51-54: an await of the cycle raises
G_Raise ==
    /\ legacy_pc \in {"fetch", "process", "send"}
    /\ legacy_pc' = "sleep"
    /\ legacy_messages' = Empty
    /\ legacy_msg' = NoMsg
    /\ UNCHANGED <<processed_ids, prev_done, cur_done>>
    /\ UNCHANGED svars
    /\ UNCHANGED nonlegacy

(* ------------------------------------------------------------------ *)
(* Specification                                                       *)
(* ------------------------------------------------------------------ *)
\* the callers of send_text and send_file
NextSend ==
    \/ \E c \in Senders, kind \in SendKinds : S_Call(c, kind)
    \/ \E c \in Senders, found \in BOOLEAN : S_LoginCount(c, found)
    \/ \E c \in Senders, visible \in BOOLEAN : S_LoginVisible(c, visible)
    \/ \E c \in Senders : S_Acquired(c)
    \/ \E c \in Senders, how \in {"ok", "raise", "absent"} : S_Step(c, how)
    \/ \E c \in Senders : S_Cancel(c)

SpecSend == Init /\ [][NextSend]_vars

\* every await inside the lock returns or raises, and the event loop runs the
\* waiter that the release of the lock has woken; one send at most is inside
\* the lock and one waiter at most is woken at a time
SendsFinish ==
    /\ WF_vars(\E c \in Senders : S_Acquired(c))
    /\ WF_vars(\E c \in Senders, how \in {"ok", "raise", "absent"} : S_Step(c, how))

\* what each caller sends: the listener texts (background.py:156), a
\* request handler texts and files (main.py:119, 142), the command files
\* (builtin.py:114)
KindsOf(c) ==
    CASE c = "listener" -> {"text"}
      [] c = "plugin" -> {"file", "nofile"}
      [] OTHER -> SendKinds

\* the sends with each caller sending what its code sends
NextQueue ==
    \/ \E c \in Senders : \E kind \in KindsOf(c) : S_Call(c, kind)
    \/ \E c \in Senders, found \in BOOLEAN : S_LoginCount(c, found)
    \/ \E c \in Senders, visible \in BOOLEAN : S_LoginVisible(c, visible)
    \/ \E c \in Senders : S_Acquired(c)
    \/ \E c \in Senders, how \in {"ok", "raise", "absent"} : S_Step(c, how)
    \/ \E c \in Senders : S_Cancel(c)

SpecSendFair == InitNoCleanup /\ [][NextQueue]_vars /\ SendsFinish

\* the scheduled-task table and its two management surfaces, the clock
\* standing still
NextTable ==
    \/ framework_tasks
    \/ \E t \in TimeInputs, c \in CommandInputs : framework_add_task(t, c)
    \/ \E i \in IdInputs : framework_delete_task(i)
    \/ \E i \in IdInputs, b \in BOOLEAN : framework_set_task_enabled(i, b)
    \/ \E i \in IdInputs : framework_run_task(i)
    \/ \E a \in ChatCalls : cmd_task(a.tok, a.n, a.id, a.time)

SpecTable == Init /\ [][NextTable]_vars

\* the clock and its check, with tasks added at valid times, switched on and
\* off, run by hand and deleted
NextSched ==
    \/ scheduler_check
    \/ clock_minute
    \/ \E t \in SchedTimes : framework_add_task(t, "/status")
    \/ \E i \in IdInputs : framework_delete_task(i)
    \/ \E i \in IdInputs, b \in BOOLEAN : framework_set_task_enabled(i, b)
    \/ \E i \in IdInputs : framework_run_task(i)
    \/ \E a \in SchedCalls : cmd_task(a.tok, a.n, a.id, a.time)

SpecSched == Init /\ [][NextSched]_vars

NextTasks == NextTable \/ scheduler_check \/ clock_minute

\* the pipeline on a given set of texts and of handler results
NextDispatchOn(texts, replies) ==
    \/ \E text \in texts : process_begin(text)
    \/ command_done
    \/ \E r \in replies : handler_done(r)
    \/ deliver
    \/ reload_begin("chat")
    \/ reload_unit

\* the plugin loader with its readers: plugin files change, reloads are asked
\* for by the API and by /reload, the status is read, /ping is dispatched
NextPlugins ==
    \/ \E u \in Range(Units), h \in Healths : edit_unit(u, h)
    \/ reload_begin("api")
    \/ list_plugins
    \/ NextDispatchOn(ReloadTexts, {""})

SpecPlugins == Init /\ [][NextPlugins]_vars

\* the pipeline, with plugins/example.py loaded or not
NextDispatch ==
    \/ NextDispatchOn(DispatchTexts, HandlerReplies)
    \/ \E h \in {"ok", "syntax"} : edit_unit("example", h)

SpecDispatch == Init /\ [][NextDispatch]_vars

\* all four loops on a transport that returns no message, with start and stop
NextLife ==
    \/ start_all
    \/ L_Wake
    \/ \E ok \in BOOLEAN : L_CheckDone(ok)
    \/ L_FetchDone(Empty)
    \/ L_EndBatch
    \/ L_Raise
    \/ H_Tick
    \/ \E st \in {"ok", "loginout"} : H_SyncDone(st)
    \/ H_DelayDone
    \/ H_LoadDone
    \/ \E ok \in BOOLEAN : H_CheckDone(ok)
    \/ H_Raise
    \/ V_Wake
    \/ V_SaveDone
    \/ V_Raise
    \/ \E how \in {"ok", "raise"} : C_Sweep(how)
    \/ stop_all
    \/ stop_resume
    \/ \E t \in Loops : observe_cancel(t)

SpecLife == Init /\ [][NextLife]_vars

Next ==
    \/ NextLife
    \/ L_Wake
    \/ \E ok \in BOOLEAN : L_CheckDone(ok)
    \/ \E b \in Batches : L_FetchDone(b)
    \/ L_Skip
    \/ L_Accept
    \/ L_DownloadDone
    \/ \E r \in Replies : L_ProcessDone(r)
    \/ \E ok \in BOOLEAN : L_SendDone(ok)
    \/ L_EndBatch
    \/ L_Raise
    \/ H_Tick
    \/ \E st \in {"ok", "loginout"} : H_SyncDone(st)
    \/ H_DelayDone
    \/ H_LoadDone
    \/ \E ok \in BOOLEAN : H_CheckDone(ok)
    \/ H_Raise
    \/ NextSend
    \/ NextTasks
    \/ NextPlugins
    \/ NextDispatch

Spec == Init /\ [][Next]_vars

\* the listener alone, on messages told apart by their id, none answered
NextDedup ==
    \/ start_all
    \/ L_Wake
    \/ \E ok \in BOOLEAN : L_CheckDone(ok)
    \/ \E b \in BatchesOf(DedupMessages) : L_FetchDone(b)
    \/ L_Skip
    \/ L_Accept
    \/ L_DownloadDone
    \/ \E r \in NoReply : L_ProcessDone(r)
    \/ L_EndBatch
    \/ L_Raise

SpecDedup == InitNoCleanup /\ [][NextDedup]_vars

\* the listener alone, on messages whose text may repeat a reply
NextEcho ==
    \/ start_all
    \/ L_Wake
    \/ \E ok \in BOOLEAN : L_CheckDone(ok)
    \/ \E b \in BatchesOf(EchoMessages) : L_FetchDone(b)
    \/ L_Skip
    \/ L_Accept
    \/ L_DownloadDone
    \/ \E r \in Replies : L_ProcessDone(r)
    \/ \E ok \in BOOLEAN : L_SendDone(ok)
    \/ L_EndBatch
    \/ L_Raise

SpecEcho == InitNoCleanup /\ [][NextEcho]_vars

\* listener and heartbeat on a transport that returns no message
NextConn ==
    \/ start_all
    \/ L_Wake
    \/ \E ok \in BOOLEAN : L_CheckDone(ok)
    \/ L_FetchDone(Empty)
    \/ L_EndBatch
    \/ L_Raise
    \/ H_Tick
    \/ \E st \in {"ok", "loginout"} : H_SyncDone(st)
    \/ H_DelayDone
    \/ H_LoadDone
    \/ \E ok \in BOOLEAN : H_CheckDone(ok)
    \/ H_Raise

SpecConn == InitNoCleanup /\ [][NextConn]_vars

\* the listener alone, on text messages answered by the commands they name
NextOrder ==
    \/ start_all
    \/ L_Wake
    \/ \E ok \in BOOLEAN : L_CheckDone(ok)
    \/ \E b \in BatchesOf(OrderMessages) : L_FetchDone(b)
    \/ L_Skip
    \/ L_Accept
    \/ L_ProcessDone(process(registry, msg))
    \/ \E ok \in BOOLEAN : L_SendDone(ok)
    \/ L_EndBatch
    \/ L_Raise

SpecOrder == InitNoCleanup /\ [][NextOrder]_vars

\* the listener alone, with a download or a pipeline that raises for every
\* message taken up
NextFail ==
    \/ start_all
    \/ L_Wake
    \/ \E ok \in BOOLEAN : L_CheckDone(ok)
    \/ \E b \in BatchesOf(DedupMessages) : L_FetchDone(b)
    \/ L_Skip
    \/ L_Accept
    \/ L_DownloadDone
    \/ L_EndBatch
    \/ L_Raise

SpecFail == InitNoCleanup /\ [][NextFail]_vars

\* the downloads cache under calls for both keys, seconds passing between
NextFiles ==
    \/ clock_second
    \/ \E b \in BOOLEAN : scan_downloads(b)
    \/ invalidate_downloads_cache

SpecFiles == Init /\ [][NextFiles]_vars

\* the listener of main.py alone, with the login state set by requests
NextLegacy ==
    \/ lifespan_start
    \/ G_Wake
    \/ \E ok \in BOOLEAN : check_login_status(ok)
    \/ \E b \in BatchesOf(DedupMessages) : G_FetchDone(b)
    \/ G_Skip
    \/ \E x \in Keys : G_Accept(x)
    \/ \E r \in LegacyReplies : G_ProcessDone(r)
    \/ G_SendDone
    \/ G_EndBatch
    \/ G_Raise

SpecLegacy == InitNoCleanup /\ [][NextLegacy]_vars


(* ------------------------------------------------------------------ *)
(* Properties of the listener: dedup                                   *)
(* ------------------------------------------------------------------ *)
\* this step calls processor.process for key k
Invoked(k) == lpc # "process" /\ lpc' = "process" /\ UniqueKey(msg') = k

\* this step ends a listener cycle
CycleEnds == lpc # "sleep" /\ lpc' = "sleep"

\* C1 as stated: processor.process is invoked at most once for a key, whatever
\* number of other messages and cycles lie between its two deliveries.
C1_AtMostOnceEver ==
    [][\A k \in Keys : Invoked(k) => k \notin dispatched]_vars

\* C1 amended: processor.process is invoked again for a key only after at
\* least ProcessedCap (5000) keys were recorded since its last invocation;
\* with fewer keys in between a second delivery invokes nothing.
C1_AtMostOnceInWindow ==
    [][\A k \in Keys : Invoked(k) /\ k \in dispatched => since[k] >= ProcessedCap]_vars

\* C1 witness: a later cycle was handed a key dispatched before, skipped it,
\* and ended.
C1_Witness ==
    /\ lpc = "sleep"
    /\ skipped_dup
    /\ cycle = "ok"
    /\ dispatched # {}

\* C2 as stated: every new, non-echo message is passed to processor.process
\* exactly once: when its cycle has ended it has been passed on, and no key is
\* passed on a second time.
C2_ExactlyOnce ==
    /\ [](lpc = "sleep" => undispatched = {})
    /\ [][\A k \in Keys : Invoked(k) => k \notin dispatched]_vars

\* C3 as stated: a message whose text is exactly one of the replies held in
\* sent_buffer is not passed to processor.process.
C3_EchoSuppressed ==
    [][lpc # "process" /\ lpc' = "process" => msg'.text \notin Range(sent_buffer)]_vars

\* C4: processed_order and sent_buffer never exceed their capacities, and an
\* append to a full deque drops its oldest entry and keeps the others in order.
EvictsOldest(q, r, cap) ==
    Len(q) = cap /\ r # q =>
        /\ Len(r) = cap
        /\ \A i \in 1..(cap - 1) : r[i] = q[i + 1]

C4_BoundedMemory ==
    /\ [](Len(processed_order) <= ProcessedCap /\ Len(sent_buffer) <= SentCap)
    /\ [][/\ EvictsOldest(processed_order, processed_order', ProcessedCap)
          /\ EvictsOldest(sent_buffer, sent_buffer', SentCap)]_vars

\* C4 witness: both deques are full and both have dropped an entry.
C4_Witness ==
    /\ Len(processed_order) = ProcessedCap
    /\ Cardinality(processed_set) > ProcessedCap
    /\ Len(sent_buffer) = SentCap
    /\ sent_count > SentCap

\* C5 as stated: in every state processed_set has at most DriftSlack (100)
\* entries more than processed_order, and a resync leaves it equal to the set
\* of the entries of processed_order.
C5_BoundedDrift ==
    /\ [](Cardinality(processed_set) <= Len(processed_order) + DriftSlack)
    /\ [][Cardinality(processed_set') < Cardinality(processed_set)
            => processed_set' = Range(processed_order')]_vars

(* ------------------------------------------------------------------ *)
(* Properties of the listener: backoff and fault boundary              *)
(* ------------------------------------------------------------------ *)
RECURSIVE Pow(_, _)
Pow(b, k) == IF k = 0 THEN 1 ELSE b * Pow(b, k - 1)

\* min(base * 1.2^k, 3.0)
Backoff(base, k) == RMin(<<base[1] * Pow(6, k), base[2] * Pow(5, k)>>, max_interval)

\* C6 as stated: after k idle cycles in a row the interval is
\* min(1.0 * 1.2^k, 3.0).
C6_BackoffFromOne ==
    streak >= 1 /\ streak < IdleCap => poll_interval = Backoff(initial_interval, streak)

\* C6 amended: after k idle cycles in a row the interval is
\* min(p0 * 1.2^k, 3.0), where p0 is the interval the streak began with: 1.0 at
\* start, 0.5 after a cycle with a new message, 3.0 after a cycle that raised.
C6_BackoffFromBase ==
    /\ streak < IdleCap => poll_interval = Backoff(streak_base, streak)
    /\ streak_base \in {initial_interval, min_interval, max_interval}
    /\ streak_base = initial_interval => cycle \in {"none", "ok"}
    /\ streak_base = min_interval => cycle = "ok"
    /\ streak_base = max_interval /\ streak = 0 => cycle = "raised"

\* C6 witness: idle cycles after a cycle with a new message, up to the cap
C6_Witness ==
    /\ lpc = "sleep"
    /\ streak_base = min_interval
    /\ streak = IdleCap - 1
    /\ poll_interval = max_interval

\* C7 as stated, for the cycles that end without an exception (C8 has the
\* others): a cycle that added a key to the dedup structures ends with the
\* interval at min_interval, any other cycle with the interval multiplied by
\* 1.2 and capped at max_interval.
C7_ResetOnRecorded ==
    [][CycleEnds /\ cycle' = "ok" =>
        IF added # "none"
        THEN poll_interval' = min_interval
        ELSE poll_interval' = RMin(Times12(poll_interval), max_interval)]_vars

\* C7 amended: a cycle that ends without an exception ends with the interval
\* at min_interval if it recorded a new message that is not an echo; otherwise
\* (nothing new, or echoes only) with the interval multiplied by 1.2 and
\* capped at max_interval.
C7_ResetOnNew ==
    [][CycleEnds /\ cycle' = "ok" =>
        IF added = "new"
        THEN poll_interval' = min_interval
        ELSE poll_interval' = RMin(Times12(poll_interval), max_interval)]_vars

\* C7 witness: a cycle that recorded echoes only has ended and backed off
C7_Witness ==
    /\ lpc = "sleep"
    /\ cycle = "ok"
    /\ added = "echo"
    /\ streak >= 1
    /\ RLess(min_interval, poll_interval)

\* C8: an exception in a listener cycle ends the cycle with one more
\* "Listener error" entry at the end of the error history, the entries before
\* it kept in order, the interval at max_interval, and the listener asleep and
\* able to begin the next cycle.
C8_FaultBoundary ==
    /\ [][CycleEnds /\ cycle' = "raised" =>
            /\ errors' # Empty
            /\ errors'[Len(errors')] = ListenerError
            /\ Len(errors') = (IF Len(errors) < ErrCap THEN Len(errors) + 1 ELSE ErrCap)
            /\ \A i \in 1..(Len(errors') - 1) :
                   errors'[i] = errors[i + Len(errors) + 1 - Len(errors')]
            /\ poll_interval' = max_interval]_vars
    /\ [](lpc = "sleep" => ENABLED L_Wake)

\* C8 witness: a cycle raised after a message was sent on, the error history
\* is full, and the listener sleeps
C8_Witness ==
    /\ lpc = "sleep"
    /\ cycle = "raised"
    /\ added = "new"
    /\ Len(errors) = ErrCap
    /\ poll_interval = max_interval

(* ------------------------------------------------------------------ *)
(* Properties of the reconnect state machine                           *)
(* ------------------------------------------------------------------ *)
\* reconnect_attempts has passed max_reconnect_attempts
Fatal == reconnect_attempts > MaxReconnectAttempts

\* this step begins an automatic reconnect attempt: the listener calls
\* check_login_status, or the heartbeat calls _load_session or
\* check_login_status
ReconnectBegins ==
    \/ lpc = "sleep" /\ lpc' = "check"
    \/ hpc # "load" /\ hpc' = "load"
    \/ hpc # "hcheck" /\ hpc' = "hcheck"

\* C9 as stated: the logout detection that takes reconnect_attempts past the
\* maximum appends the "max reconnect attempts reached" entry, and from then
\* on no session restore and no connectivity check is begun.
C9_ReconnectCap ==
    /\ [][~Fatal /\ Fatal' =>
            errors' # Empty /\ errors'[Len(errors')] = MaxReconnectError]_vars
    /\ [][Fatal => ~ReconnectBegins]_vars

\* C10 as stated: once reconnect_attempts has passed the maximum it stays so
\* and the transport is never marked connected again by the loops.
C10_FatalTerminal ==
    [][Fatal => Fatal' /\ ~is_logged_in']_vars

(* ------------------------------------------------------------------ *)
(* Properties of the send gate                                         *)
(* ------------------------------------------------------------------ *)
\* caller c is inside the multi-step transport interaction of a send
InSend(c) == spc[c] \in GateSteps

\* C11: at most one send (send_text or send_file) is inside its multi-step
\* transport interaction at any time, the caller inside holds the lock, and a
\* step of one send is never taken while another send is between its steps.
C11_SendMutex ==
    /\ [](\A a, b \in Senders : InSend(a) /\ InSend(b) => a = b)
    /\ [](\A c \in Senders : InSend(c) => lock = c)
    /\ [][\A c \in Senders :
            spc'[c] \in GateSteps /\ spc'[c] # spc[c]
                => \A d \in Senders \ {c} : ~InSend(d) /\ ~InSend(d)']_vars

\* C11 witness: a file send is between its steps while the two other callers,
\* one of them with a text, are queued behind it
C11_Witness ==
    /\ lock = "plugin"
    /\ spc["plugin"] = "setfiles"
    /\ skind["plugin"] = "file"
    /\ Len(waiters) = 2
    /\ skind["listener"] = "text"
    /\ spc["listener"] = "wait"

(* ------------------------------------------------------------------ *)
(* Properties of the scheduled tasks                                   *)
(* ------------------------------------------------------------------ *)
\* the minute the clock shows
Now == ClockMinutes[clock.min]

\* the run of task i that a manual run begins
ManualRun(i) == [id |-> i, trigger |-> "manual", command |-> tasks[i].command_text]

\* C12: an enabled task whose time is the current minute has run exactly once
\* in that minute of that day after any clock check, however many checks the
\* minute has; the clock runs a task only in its own minute, and never twice
\* in one minute of one day.
C12_SingleFire ==
    /\ [](\A i \in DOMAIN fired_now : fired_now[i] <= 1)
    /\ [][scheduler_check =>
            \A i \in DOMAIN tasks :
                tasks[i].enabled /\ tasks[i].time_hm = Now => fired_now'[i] = 1]_vars
    /\ [][\A r \in task_runs' :
            r.trigger = "schedule" =>
                tasks[r.id].time_hm = Now /\ fired_now[r.id] = 0]_vars

\* C12 witness: a task that ran on the first day has run once more on the
\* second day, in a minute that was checked twice
C12_Witness ==
    \E i \in DOMAIN tasks :
        /\ clock.day = 2
        /\ checks_now = 2
        /\ tasks[i].time_hm = Now
        /\ fired_now[i] = 1
        /\ fired_total[i] = 2

\* C13: the clock check never runs a disabled task, and a manual run of a
\* known task, from the API or from /task run, runs its command text at once
\* and reports success whether the task is enabled or not.
C13_DisabledManualOnly ==
    /\ [][\A r \in task_runs' :
            r.trigger = "schedule" => r.id \in DOMAIN tasks /\ tasks[r.id].enabled]_vars
    /\ [][\A i \in DOMAIN tasks :
            framework_run_task(i) =>
                task_runs' = {ManualRun(i)} /\ resp'.code = 200 /\ tasks' = tasks]_vars
    /\ [][\A i \in DOMAIN tasks, tok \in {"run", "RUN"} :
            cmd_task(tok, 2, i, Empty) =>
                task_runs' = {ManualRun(i)} /\ resp'.text = "task executed"
                    /\ tasks' = tasks]_vars

\* C13 witness: a disabled task was passed over by a clock check in its own
\* minute, then run by hand
C13_Witness ==
    \E i \in DOMAIN tasks :
        /\ ~tasks[i].enabled
        /\ tasks[i].time_hm = Now
        /\ checks_now >= 1
        /\ fired_now[i] = 0
        /\ fired_total[i] = 0
        /\ task_runs = {ManualRun(i)}
        /\ resp.code = 200

\* the step added exactly one task, under an id never issued before, with the
\* time given, and list shows it
AddedOne(time_hm) ==
    \E id \in DOMAIN tasks' \ DOMAIN tasks :
        /\ id \notin issued
        /\ DOMAIN tasks' = DOMAIN tasks \cup {id}
        /\ \A j \in DOMAIN tasks : tasks'[j] = tasks[j]
        /\ tasks'[id].time_hm = time_hm
        /\ \E k \in 1..Len(list_tasks(tasks')) : list_tasks(tasks')[k] = id
        /\ resp'.id = id

\* the step removed exactly task i
RemovedOne(i) ==
    /\ DOMAIN tasks' = DOMAIN tasks \ {i}
    /\ \A j \in DOMAIN tasks' : tasks'[j] = tasks[j]
    /\ DOMAIN tasks = {i} => list_tasks(tasks') = Empty

\* C14: an add with a valid time inserts exactly one task under a fresh id,
\* listed with the time given; a delete of a task in the table reports success
\* and removes exactly that task, so that deleting the only task leaves the
\* list empty.
C14_TaskRoundTrip ==
    /\ [](DOMAIN tasks \subseteq issued /\ next_id \notin issued)
    /\ [][\A t \in TimeInputs, c \in CommandInputs :
            ValidTimeHM(t) /\ c # "" /\ framework_add_task(t, c) => AddedOne(t)]_vars
    /\ [][\A t \in TimeInputs :
            ValidTimeHM(t) /\ cmd_task("add", 3, 0, t) => AddedOne(t)]_vars
    /\ [][\A i \in DOMAIN tasks :
            framework_delete_task(i) => resp'.code = 200 /\ RemovedOne(i)]_vars
    /\ [][\A i \in DOMAIN tasks, tok \in {"del", "DEL", "delete", "rm"} :
            cmd_task(tok, 2, i, Empty) => resp'.text = "deleted" /\ RemovedOne(i)]_vars

\* C14 witness: the only task of the table, added at 09:00, has been deleted
\* and the list is empty
C14_Witness ==
    /\ issued = {1}
    /\ DOMAIN tasks = {}
    /\ list_tasks(tasks) = Empty
    /\ resp.code = 200
    /\ resp.text = "deleted"

\* C15: delete, enable/disable and manual run of an id that is not in the
\* table leave the table unchanged, run nothing and answer "task not found"
\* (404 from the API, the not-found reply from /task).
C15_UnknownTask ==
    /\ [][\A i \in IdInputs \ DOMAIN tasks :
            \/ framework_delete_task(i)
            \/ framework_run_task(i)
            \/ \E b \in BOOLEAN : framework_set_task_enabled(i, b)
            => /\ tasks' = tasks
               /\ task_runs' = {}
               /\ resp'.code = 404
               /\ resp'.text = "task not found"]_vars
    /\ [][\A i \in IdInputs \ DOMAIN tasks,
            tok \in {"del", "DEL", "delete", "rm", "on", "On", "off", "run", "RUN"} :
            cmd_task(tok, 2, i, Empty)
            => /\ tasks' = tasks
               /\ task_runs' = {}
               /\ resp'.text = "task does not exist"]_vars

\* C15 witness: an id that was deleted is named again while another task is
\* in the table, and the API answers 404
C15_Witness ==
    /\ DOMAIN tasks = {2}
    /\ resp.code = 404
    /\ resp.text = "task not found"

\* HH:MM with HH in 00..23 and MM in 00..59
IsHHMM(s) ==
    /\ Len(s) = 5
    /\ <<s[1], s[2]>> \in
         ({"0", "1"} \X AsciiDigits) \cup ({"2"} \X {"0", "1", "2", "3"})
    /\ s[3] = ":"
    /\ <<s[4], s[5]>> \in {"0", "1", "2", "3", "4", "5"} \X AsciiDigits

\* C16: an add, from the API or from /task add, is accepted exactly when its
\* time is HH:MM with HH in 00..23 and MM in 00..59; any other time is
\* answered with an error and leaves the table unchanged.
C16_TimeValidation ==
    /\ [][\A t \in TimeInputs, c \in CommandInputs \ {""} :
            framework_add_task(t, c) =>
                IF IsHHMM(t)
                THEN resp'.code = 200 /\ DOMAIN tasks' # DOMAIN tasks
                ELSE resp'.code \in {400, 422} /\ tasks' = tasks]_vars
    /\ [][\A t \in TimeInputs, tok \in {"add", "Add"} :
            cmd_task(tok, 3, 0, t) =>
                IF IsHHMM(t)
                THEN resp'.text = "task added" /\ DOMAIN tasks' # DOMAIN tasks
                ELSE resp'.text = "add failed" /\ tasks' = tasks]_vars

\* C16 witness: a time that passes the pattern of the payload with a digit
\* that is not ASCII was refused by add with the table left as it was
C16_Witness ==
    /\ resp.code = 400
    /\ DOMAIN tasks = {1}

(* ------------------------------------------------------------------ *)
(* Properties of the plugin loader and of the dispatch pipeline        *)
(* ------------------------------------------------------------------ *)
\* this step is the last of a reload
ReloadCompletes == rpc # "idle" /\ rpc' = "idle"

OkUnits == { u \in Range(Units) : health[u] = "ok" }

\* C17: when a reload completes, every unit that loads is in the list of
\* loaded units and each of its command names and aliases resolves to its
\* command, whatever units failed; every unit that failed is in the error
\* list with its identifier and its error and is not counted as loaded; the
\* status returned counts exactly the units that loaded.
C17_PluginIsolation ==
    [][ReloadCompletes =>
        /\ \A u \in OkUnits :
              /\ \E i \in 1..Len(loaded_plugins') : loaded_plugins'[i] = u
              /\ \A c \in UnitCommands(u) : \A k \in c.keys :
                    Resolve(registry', k) = c.name
        /\ \A u \in Range(Units) \ OkUnits :
              /\ \E i \in 1..Len(load_errors') :
                    load_errors'[i] = [file |-> u, error |-> health[u]]
              /\ \A i \in 1..Len(loaded_plugins') : loaded_plugins'[i] # u
        /\ pstatus'.loaded_count = Cardinality(OkUnits)
        /\ pstatus'.loaded_plugins = loaded_plugins'
        /\ pstatus'.errors = load_errors']_vars

\* C17 witness: a reload with plugins/example.py malformed and the custom
\* unit raising has reported one loaded unit and two errors, and /ping of the
\* unit that loaded has been answered
C17_Witness ==
    /\ rpc = "idle"
    /\ health = [AllOk EXCEPT !["example"] = "syntax", !["custom"] = "raise"]
    /\ pstatus.loaded_count = 1
    /\ pstatus.loaded_plugins = <<"builtin">>
    /\ Len(pstatus.errors) = 2
    /\ seen = registry
    /\ dpc = "idle"
    /\ dcmd = "ping"
    /\ dreply = "pong"
    /\ nsent = 1

\* C18: whoever reads the registry (a dispatch, a status query) sees it as
\* the last complete load left it, and between reloads the registry is that
\* of the last complete load: a cleared or half rebuilt registry is never
\* read.
C18_AtomicReload ==
    /\ [](seen = expected)
    /\ [](rpc = "idle" => registry = last_complete)

\* C18 witness: a dispatch of /ping is suspended in its handler; a reload
\* from the API that lost plugins/builtin.py has completed since, and a
\* status query has read the new registry
C18_Witness ==
    /\ dpc = "command"
    /\ dcmd = "ping"
    /\ rpc = "idle"
    /\ Resolve(registry, <<"p", "i", "n", "g">>) = "none"
    /\ seen = registry
    /\ pstatus.loaded_count = 2

\* the priorities of hs never increase
Descending(hs) ==
    \A i, j \in 1..Len(hs) : i < j => hs[i].priority >= hs[j].priority

\* C19: the handlers invoked so far and those still to invoke are in
\* descending priority order; a handler that returns a reply ends the chain,
\* its reply is the reply of the pipeline and no handler is invoked after it;
\* a message is answered once if the pipeline has a reply and not at all if
\* it has none.
C19_HandlerChain ==
    /\ [](Descending(called \o dchain))
    /\ [](dpc = "chain" => dreply = "")
    /\ [][\A r \in HandlerReplies \ {""} :
            handler_done(r) => dreply' = r /\ dpc' = "reply" /\ dchain' = Empty]_vars
    /\ [][Len(called') > Len(called) =>
            dpc = "chain" /\ called' = Append(called, Head(dchain))]_vars
    /\ [][dpc = "reply" /\ dpc' = "idle" =>
            nsent' = (IF dreply = "" THEN 0 ELSE 1)]_vars
    /\ [](nsent <= 1)

\* C19 witness: the first handler had no reply, the second had one, the third
\* was not invoked, and the reply was sent
C19_Witness ==
    /\ dpc = "idle"
    /\ Len(called) = 2
    /\ called[1].name = "spam_filter"
    /\ called[2].name = "fallback"
    /\ Len(registry.handlers) = 3
    /\ dreply = "reply of handler"
    /\ nsent = 1

\* a and b are equal up to the case of their letters
EqualNoCase(a, b) ==
    /\ Len(a) = Len(b)
    /\ \A i \in 1..Len(a) : LowerChar(a[i]) = LowerChar(b[i])

\* the commands of loaded units of which a name or alias is the token of text
Matching(text) ==
    { c \in CommandTable :
        /\ \E i \in 1..Len(loaded_plugins) : loaded_plugins[i] = c.unit
        /\ \E k \in c.keys : EqualNoCase(k, FirstWord(Tail(text))) }

\* C20: a text that begins with the prefix and whose token is, up to case, a
\* name or an alias of a registered command goes to that command, whose
\* handler gives the reply (/ping is answered "pong"); any other text goes to
\* the handler chain.
C20_CommandResolution ==
    /\ [][\A text \in DispatchTexts :
            process_begin(text) =>
                IF IsCommandText(text) /\ Matching(text) # {}
                THEN /\ dpc' = "command"
                     /\ \E c \in Matching(text) : dcmd' = c.name
                ELSE /\ dcmd' = "none"
                     /\ dpc' \in {"chain", "reply"}
                     /\ Len(dchain') = Len(registry.handlers)]_vars
    /\ [](dpc = "reply" /\ dcmd = "ping" => dreply = "pong")
    /\ [](dpc = "reply" /\ dcmd \notin {"none", "reload"} => dreply # "")

\* C20 witness: /PING has been answered "pong"
C20_Witness ==
    /\ dtext = <<"/", "P", "I", "N", "G">>
    /\ dcmd = "ping"
    /\ dpc = "idle"
    /\ dreply = "pong"
    /\ nsent = 1

\* C20 witness of the other case: /nosuch went through the whole handler
\* chain and was not answered
C20_FallThrough ==
    /\ dtext = <<"/", "n", "o", "s", "u", "c", "h">>
    /\ dcmd = "none"
    /\ dpc = "idle"
    /\ Len(called) = 3
    /\ nsent = 0

(* ------------------------------------------------------------------ *)
(* Properties of the life cycle of the loops                           *)
(* ------------------------------------------------------------------ *)
\* loop t has been created
Started(t) == Pc(t) # "none"

\* what the loops write
loopvars == <<lvars, hpc, vpc, cpc, svars, tvars, last_heartbeat, sweeps,
              saver_logged>>

\* C21: when stop_all has returned, every loop that was started is over, and
\* each became so by a cancellation that stop_all requested and waited for;
\* from then on no loop takes a step.
C21_ShutdownComplete ==
    /\ [](stopping = "returned" => \A t \in Loops : Started(t) => Pc(t) = "done")
    /\ [][\A t \in Loops : Pc(t)' = "done" /\ Pc(t) # "done" =>
            Pc(t) = "cancelled" /\ stopping = t]_vars
    /\ [][stopping = "returned" => UNCHANGED loopvars]_vars

\* C21 witness: the four loops ran, the listener was cancelled in the middle
\* of a cycle, and stop_all has returned
C21_Witness ==
    /\ stopping = "returned"
    /\ \A t \in Loops : Pc(t) = "done"
    /\ last_heartbeat = 1
    /\ sweeps # {}
    /\ cycle = "ok"
    /\ is_logged_in

\* C22: a loop is over only through a cancellation; a step in which an
\* iteration raises leaves the loop asleep before its next iteration, with
\* the error at the end of the error history for the listener, the heartbeat
\* and the cleanup, and printed for the session saver.
C22_LoopsSurvive ==
    /\ [][\A t \in Loops : Pc(t)' = "done" => Pc(t) \in {"cancelled", "done"}]_vars
    /\ [][L_Raise => lpc' = "sleep" /\ errors'[Len(errors')] = ListenerError]_vars
    /\ [][H_Raise => hpc' = "sleep" /\ errors'[Len(errors')] = HeartbeatError]_vars
    /\ [][C_Sweep("raise") =>
            cpc' = "sleep" /\ errors'[Len(errors')] = CleanupError]_vars
    /\ [][V_Raise => vpc' = "sleep" /\ saver_logged']_vars
    /\ [](lpc = "sleep" => ENABLED L_Wake)
    /\ [](hpc = "sleep" /\ ListenerSuspended => ENABLED H_Tick)
    /\ [](vpc = "sleep" /\ ListenerSuspended => ENABLED V_Wake)
    /\ [](cpc = "sleep" /\ ListenerSuspended => ENABLED C_Sweep("ok"))

\* C22 witness: the listener, the session saver, the heartbeat and then the
\* cleanup have raised, and all four are asleep before their next iteration
C22_Witness ==
    /\ cycle = "raised"
    /\ saver_logged
    /\ Len(errors) >= 2
    /\ errors[Len(errors) - 1] = HeartbeatError
    /\ errors[Len(errors)] = CleanupError
    /\ \A t \in Loops : Pc(t) = "sleep"

\* errs with e recorded, the oldest entry dropped when errs is full
Recorded(errs, e) ==
    [i \in 1..(IF Len(errs) < ErrCap THEN Len(errs) + 1 ELSE ErrCap) |->
        IF i = (IF Len(errs) < ErrCap THEN Len(errs) + 1 ELSE ErrCap)
        THEN e
        ELSE IF Len(errs) < ErrCap THEN errs[i] ELSE errs[i + 1]]

\* C23: the error history never holds more than ErrCap (20) entries, and a
\* step that records an error leaves the entries it held in their order, less
\* the oldest one when it was full, followed by the new entry.
C23_ErrorRing ==
    /\ [](Len(errors) <= ErrCap)
    /\ [][L_Raise => errors' = Recorded(errors, ListenerError)]_vars
    /\ [][H_Raise => errors' = Recorded(errors, HeartbeatError)]_vars
    /\ [][C_Sweep("raise") => errors' = Recorded(errors, CleanupError)]_vars
    /\ [][H_SyncDone("loginout") /\ reconnect_attempts' > MaxReconnectAttempts =>
            errors' = Recorded(errors, MaxReconnectError)]_vars
    /\ [][errors' # errors =>
            \E e \in {ListenerError, HeartbeatError, CleanupError, MaxReconnectError} :
                errors' = Recorded(errors, e)]_vars

\* C23 witness: the history is full of entries recorded after the error of
\* the listener, which has been dropped
C23_Witness ==
    /\ cycle = "raised"
    /\ Len(errors) = ErrCap
    /\ \A i \in 1..Len(errors) : errors[i] # ListenerError
    /\ errors[1] = CleanupError
    /\ errors[Len(errors)] = MaxReconnectError

\* C24: with file_retention_days = 0 the cleanup loop is never created and
\* cleanup_old_files is never called; with file_retention_days > 0 start_all
\* creates the loop, and every call of cleanup_old_files has
\* days = file_retention_days and delete_files = TRUE.
C24_RetentionSwitch ==
    /\ [](file_retention_days = 0 => cpc = "none" /\ sweeps = {})
    /\ [](file_retention_days > 0 /\ Started("listener") => Started("cleanup"))
    /\ [](\A c \in sweeps : c.days = file_retention_days /\ c.delete_files)
    /\ [][sweeps' # sweeps => cpc = "sleep"]_vars

\* C24 witness: with a retention of 7 days a sweep was made
C24_Witness ==
    /\ file_retention_days = 7
    /\ cpc = "sleep"
    /\ sweeps = {[days |-> 7, delete_files |-> TRUE]}

\* C24 witness of the other case: the loops run for a while with a retention
\* of 0 days
C24_Disabled ==
    /\ file_retention_days = 0
    /\ lpc = "sleep"
    /\ cycle = "ok"
    /\ last_heartbeat = 1
    /\ cpc = "none"

(* ------------------------------------------------------------------ *)
(* Properties of the listener: order, replies, accounting              *)
(* ------------------------------------------------------------------ *)
Hello == Msg(<<"1">>, <<"h", "e", "l", "l", "o">>, "text")
Ping == Msg(<<"2">>, <<"/", "p", "i", "n", "g">>, "text")
Pong == <<"p", "o", "n", "g">>

\* C25: the batch the transport returns newest first is visited from its
\* last message to its first; the message handed to the pipeline is the
\* oldest one not visited yet; its reply is sent, and recorded in the sent
\* buffer, before the next message is visited.  In the scenario /ping is
\* answered "pong" and "pong" is what the sent buffer receives.
C25_OldestFirst ==
    /\ [][\A b \in BatchesOf(OrderMessages) :
            L_FetchDone(b) =>
                /\ Len(messages') = Len(b)
                /\ \A i \in 1..Len(b) : messages'[i] = b[Len(b) + 1 - i]]_vars
    /\ [][lpc = "loop" /\ messages' # messages =>
            /\ messages' = Tail(messages)
            /\ lpc' = "process" => msg' = Head(messages)]_vars
    /\ [](lpc # "send" => reply = Empty)
    /\ [](lpc = "send" /\ msg = Ping => reply = Pong)
    /\ [](lpc = "process" /\ msg = Hello => ~ENABLED (\E ok \in BOOLEAN : L_SendDone(ok)))
    /\ [][lpc = "process" /\ msg = Hello /\ lpc' # lpc => lpc' \in {"loop", "sleep"}]_vars
    /\ [][sent_buffer' # sent_buffer =>
            /\ lpc = "send" /\ lpc' = "loop"
            /\ sent_buffer'[Len(sent_buffer')] = reply]_vars

\* C25 witness: the poll returned /ping (id 2) before hello (id 1); hello
\* was recorded and processed first, without reply; /ping was processed next
\* and its reply "pong" is being sent
C25_Witness ==
    /\ lpc = "send"
    /\ msg = Ping
    /\ reply = Pong
    /\ processed_order = << <<"1">>, <<"2">> >>
    /\ total_messages = 1
    /\ sent_buffer = Empty
    /\ messages = Empty

\* C25 witness of the end of the scenario: "pong" is in the sent buffer
C25_Sent ==
    /\ lpc = "loop"
    /\ processed_order = << <<"1">>, <<"2">> >>
    /\ total_messages = 2
    /\ sent_buffer = <<Pong>>

(* ------------------------------------------------------------------ *)
(* Properties of the reconnect steps                                   *)
(* ------------------------------------------------------------------ *)
\* C26: the step in which the probe of a tick reports "loginout" marks the
\* bot logged out and adds one to reconnect_attempts; with the new count
\* within the maximum the heartbeat goes into the reconnect delay, after it
\* into _load_session and after that into check_login_status, and records
\* nothing; with the new count beyond the maximum it goes back to sleep with
\* one "max reconnect attempts" entry recorded.  The probe is sent only when
\* the bot is marked logged in, and any other result of it changes nothing.
C26_HeartbeatLogout ==
    /\ [][H_SyncDone("loginout") =>
            /\ ~is_logged_in'
            /\ reconnect_attempts' = reconnect_attempts + 1
            /\ IF reconnect_attempts' <= MaxReconnectAttempts
               THEN hpc' = "delay" /\ errors' = errors
               ELSE hpc' = "sleep" /\ errors' = Recorded(errors, MaxReconnectError)]_vars
    /\ [][H_SyncDone("ok") =>
            hpc' = "sleep" /\ UNCHANGED <<lvars, svars, tvars, last_heartbeat>>]_vars
    /\ [][H_Tick =>
            /\ hpc' = (IF is_logged_in THEN "synccheck" ELSE "sleep")
            /\ UNCHANGED <<lvars, svars, tvars>>]_vars
    /\ [][hpc = "delay" /\ hpc' # hpc => hpc' = "load" /\ UNCHANGED svars]_vars
    /\ [][hpc = "load" /\ hpc' # hpc =>
            \/ hpc' = "hcheck" /\ UNCHANGED svars
            \/ hpc' = "sleep" /\ errors' = Recorded(errors, HeartbeatError)]_vars
    /\ [][hpc # "delay" /\ hpc' = "delay" =>
            hpc = "synccheck" /\ reconnect_attempts' <= MaxReconnectAttempts]_vars
    /\ [][hpc # "load" /\ hpc' = "load" => hpc = "delay"]_vars
    /\ [][hpc # "hcheck" /\ hpc' = "hcheck" => hpc = "load"]_vars

\* C26 witness: the logout that took the count to the maximum was followed by
\* the delay and the session restore, and the connectivity check is under way
C26_Witness ==
    /\ hpc = "hcheck"
    /\ reconnect_attempts = MaxReconnectAttempts
    /\ ~is_logged_in
    /\ errors = Empty

\* C26 witness of the other branch: the count went beyond the maximum and
\* the entry was recorded, the heartbeat is asleep
C26_Beyond ==
    /\ hpc = "sleep"
    /\ reconnect_attempts = MaxReconnectAttempts + 1
    /\ ~is_logged_in
    /\ errors = <<MaxReconnectError>>

\* C27: a cycle that begins with the bot marked logged out calls
\* check_login_status; when the check succeeds reconnect_attempts is 0 and
\* get_latest_messages is called in the same cycle; when it fails
\* reconnect_attempts is what it was, nothing is fetched, and the cycle ends
\* as an idle one: the interval is multiplied by 1.2 up to the maximum.
C27_ListenerReconnect ==
    /\ [][L_Wake => lpc' = (IF is_logged_in THEN "fetch" ELSE "check")]_vars
    /\ [][\A ok \in BOOLEAN : L_CheckDone(ok) =>
            IF ok
            THEN /\ is_logged_in'
                 /\ reconnect_attempts' = 0
                 /\ lpc' = "fetch"
            ELSE /\ ~is_logged_in'
                 /\ reconnect_attempts' = reconnect_attempts
                 /\ lpc' = "sleep"
                 /\ messages' = messages
                 /\ cycle' = "ok"
                 /\ streak' = (IF streak < IdleCap THEN streak + 1 ELSE streak)
                 /\ poll_interval' = RMin(Times12(poll_interval), max_interval)]_vars
    /\ [][lpc # "fetch" /\ lpc' = "fetch" => is_logged_in']_vars

\* C27 witness: the heartbeat had counted a logout and waits to reconnect;
\* the check of the listener succeeded, the count is 0 and the fetch of the
\* same cycle is under way
C27_Witness ==
    /\ lpc = "fetch"
    /\ hpc = "delay"
    /\ is_logged_in
    /\ reconnect_attempts = 0

\* C27 witness of the other case: failed checks, counted as idle cycles, with
\* the count of the heartbeat untouched
C27_Failed ==
    /\ lpc = "sleep"
    /\ ~is_logged_in
    /\ reconnect_attempts = 1
    /\ cycle = "ok"
    /\ streak = 3

\* q with x appended, the oldest entry dropped when q holds cap entries
Pushed(q, x, cap) ==
    [i \in 1..(IF Len(q) < cap THEN Len(q) + 1 ELSE cap) |->
        IF i = (IF Len(q) < cap THEN Len(q) + 1 ELSE cap) THEN x
        ELSE IF Len(q) < cap THEN q[i] ELSE q[i + 1]]

\* C28: when processor.process returns a reply that is not empty the
\* listener calls send_text with it, and when it returns none it calls
\* nothing; when send_text returns, the reply has been appended to the sent
\* buffer if it reported success, and the sent buffer is as it was if not;
\* nothing else writes the sent buffer.
C28_ReplyRecording ==
    /\ [][\A r \in Replies : L_ProcessDone(r) =>
            /\ (r # Empty) <=> (lpc' = "send")
            /\ r # Empty => reply' = r
            /\ sent_buffer' = sent_buffer]_vars
    /\ [][\A ok \in BOOLEAN : L_SendDone(ok) =>
            sent_buffer' = (IF ok THEN Pushed(sent_buffer, reply, SentCap)
                            ELSE sent_buffer)]_vars
    /\ [][sent_buffer' # sent_buffer => lpc = "send" /\ lpc' = "loop"]_vars
    /\ [](lpc = "send" => reply # Empty)

\* C28 witness: two messages were processed in one cycle and one reply was
\* sent and recorded
C28_Witness ==
    /\ lpc = "loop"
    /\ total_messages = 2
    /\ sent_count = 1
    /\ Len(sent_buffer) = 1
    /\ Cardinality(dispatched) = 2

\* the listener is about to visit a message it has not recorded
NewlySeen ==
    /\ lpc = "loop"
    /\ messages # Empty
    /\ UniqueKey(Head(messages)) # Empty
    /\ UniqueKey(Head(messages)) \notin processed_set

\* C29 as stated: a newly seen message whose text is a non-empty member of
\* the sent buffer is recorded in processed_set and processed_order and is
\* neither downloaded nor dispatched nor counted; total_messages goes up by
\* one, and only when the processing of a message is completed.
C29_EchoAccounting ==
    /\ [][/\ NewlySeen
          /\ Head(messages).text # Empty
          /\ Head(messages).text \in Range(sent_buffer)
          => /\ processed_set' = processed_set \cup {UniqueKey(Head(messages))}
             /\ processed_order' =
                    Pushed(processed_order, UniqueKey(Head(messages)), ProcessedCap)
             /\ lpc' = "loop"
             /\ UNCHANGED <<tvars, dispatched, undispatched>>]_vars
    /\ [][total_messages' # total_messages =>
            /\ total_messages' = total_messages + 1
            /\ lpc \in {"process", "send"}
            /\ lpc' = "loop"]_vars

\* id and text of m are empty once stripped
Blank(m) == Strip(m.id) = Empty /\ Strip(m.text) = Empty

\* C30: the step that visits a message whose id and text are both empty
\* after stripping removes it from the batch and changes nothing else: the
\* dedup structures, the counters, had_messages and the interval are as they
\* were, nothing is dispatched, and the listener goes on with the rest of the
\* batch; no key that is empty after stripping is ever recorded.
C30_EmptyKeyDrop ==
    /\ [][lpc = "loop" /\ messages # Empty /\ Blank(Head(messages)) =>
            /\ messages' = Tail(messages)
            /\ lpc' = "loop"
            /\ UNCHANGED <<processed_set, processed_order, sent_buffer,
                           had_messages, poll_interval, tvars, dispatched,
                           undispatched, added>>]_vars
    /\ [](\A i \in 1..Len(processed_order) : Strip(processed_order[i]) # Empty)
    /\ [](\A k \in processed_set : Strip(k) # Empty)

\* C30 witness: the oldest message of a batch is blank, a message that is
\* not follows it, and the listener is about to visit them
C30_Witness ==
    /\ lpc = "loop"
    /\ Len(messages) >= 2
    /\ Blank(messages[1])
    /\ ~Blank(messages[2])
    /\ UniqueKey(messages[2]) \notin processed_set

(* ------------------------------------------------------------------ *)
(* Properties of the reconnect count                                   *)
(* ------------------------------------------------------------------ *)
\* C31: with the listener and the heartbeat as the only writers of the
\* connection state, reconnect_attempts is between 0 and
\* max_reconnect_attempts + 1 in every reachable state.
C31_CountRange == reconnect_attempts \in 0..(MaxReconnectAttempts + 1)

\* C31 witness: the bot was logged out, restored by the heartbeat and logged
\* out again; the count is one beyond the maximum while the listener, found
\* logged out at its wake-up, has its own check under way
C31_Witness ==
    /\ reconnect_attempts = MaxReconnectAttempts + 1
    /\ hpc = "sleep"
    /\ lpc = "check"
    /\ ~is_logged_in

\* C32: the connectivity check of the heartbeat, passed or failed, leaves
\* reconnect_attempts as it is; the count goes up only by one, in the step of
\* the heartbeat that sees "loginout", and any other change of it sets it to
\* 0 and is the step of a listener whose check_login_status succeeded, in a
\* cycle that found the bot logged out when it began.
C32_ResetByListener ==
    /\ [][\A ok \in BOOLEAN : H_CheckDone(ok) =>
            /\ is_logged_in' = ok
            /\ reconnect_attempts' = reconnect_attempts]_vars
    /\ [][reconnect_attempts' # reconnect_attempts =>
            \/ /\ reconnect_attempts' = reconnect_attempts + 1
               /\ hpc = "synccheck"
            \/ /\ reconnect_attempts' = 0
               /\ lpc = "check"
               /\ lpc' = "fetch"
               /\ is_logged_in']_vars
    /\ [][lpc # "check" /\ lpc' = "check" => lpc = "sleep" /\ ~is_logged_in]_vars

\* C32 witness: the heartbeat restored the connection after a logout; the bot
\* is logged in with the count still at 1 and the listener fetches without
\* having checked
C32_Witness ==
    /\ is_logged_in
    /\ reconnect_attempts = 1
    /\ hpc = "sleep"
    /\ lpc = "fetch"

\* C32 witness of the reset: the listener woke up logged out after a counted
\* logout, its check succeeded and the count is 0
C32_Reset ==
    /\ is_logged_in
    /\ reconnect_attempts = 0
    /\ hpc = "sleep"
    /\ lpc = "fetch"
    /\ errors = <<MaxReconnectError>>

\* C34: a tick of the heartbeat that finds the bot marked logged out writes
\* last_heartbeat and nothing else: is_logged_in, reconnect_attempts and
\* errors are as they were, and the heartbeat is asleep again without having
\* called _synccheck, _load_session or check_login_status.
C34_DisconnectedTick ==
    [][H_Tick /\ ~is_logged_in =>
         /\ hpc' = "sleep"
         /\ last_heartbeat' = 1
         /\ UNCHANGED <<svars, lvars, tvars, gvars>>]_vars

\* C34 witness: a tick was taken after the count went beyond the maximum; the
\* bot is still logged out and only the one entry is recorded
C34_Witness ==
    /\ last_heartbeat = 1
    /\ hpc = "sleep"
    /\ ~is_logged_in
    /\ reconnect_attempts = MaxReconnectAttempts + 1
    /\ errors = <<MaxReconnectError>>
    /\ lpc = "sleep"
    /\ cycle = "ok"

(* ------------------------------------------------------------------ *)
(* Properties of the dedup window                                      *)
(* ------------------------------------------------------------------ *)
\* the listener is about to visit a message whose key is in processed_order
InWindow ==
    /\ lpc = "loop"
    /\ messages # Empty
    /\ UniqueKey(Head(messages)) \in Range(processed_order)

\* C35: a message whose key is in processed_order when the listener visits
\* it is skipped: it is neither recorded again nor downloaded nor passed to
\* processor.process, in whatever cycle it arrives, whether or not cycles
\* have raised and processed_set has been rebuilt in between; the messages
\* that are taken up have keys outside processed_order.
C35_WindowedDedup ==
    /\ [][InWindow =>
            /\ lpc' = "loop"
            /\ messages' = Tail(messages)
            /\ UNCHANGED <<processed_order, processed_set, dispatched,
                           undispatched, tvars>>]_vars
    /\ [][lpc = "loop" /\ lpc' \in {"download", "process"} =>
            UniqueKey(msg') \notin Range(processed_order)]_vars
    /\ [][\A k \in Keys : Invoked(k) /\ lpc = "loop" =>
            k \notin Range(processed_order)]_vars

\* C35 witness: after a cycle that raised and a rebuild of processed_set that
\* forgot a dispatched key, a key dispatched before and still in
\* processed_order was delivered again and skipped
C35_Witness ==
    /\ lpc = "loop"
    /\ skipped_dup
    /\ cycle = "raised"
    /\ dispatched \ processed_set # {}
    /\ dispatched \cap Range(processed_order) # {}

\* C40: processed_order holds no key twice and every key of processed_order
\* is in processed_set, in every state of the listener, the states in which
\* it is suspended at an await included.
C40_OrderWithinSet ==
    /\ \A i, j \in 1..Len(processed_order) :
          processed_order[i] = processed_order[j] => i = j
    /\ Range(processed_order) \subseteq processed_set

\* C40 witness: the listener is suspended in processor.process with
\* processed_order full and a key dropped from it still in processed_set
C40_Witness ==
    /\ lpc = "process"
    /\ Len(processed_order) = ProcessedCap
    /\ Cardinality(processed_set) = ProcessedCap + 1

(* ------------------------------------------------------------------ *)
(* Properties of the poll interval                                     *)
(* ------------------------------------------------------------------ *)
\* min_interval <= p <= max_interval
InRange(p) == ~RLess(p, min_interval) /\ ~RLess(max_interval, p)

\* C37: whenever the listener sleeps between two cycles, after a cycle that
\* processed messages, an idle one, one that found the bot logged out or one
\* that raised, the interval it sleeps for is at least 0.5 and at most 3.0.
C37_IntervalRange ==
    /\ [](lpc = "sleep" => InRange(poll_interval))
    /\ [][CycleEnds => InRange(poll_interval')]_vars

\* C37 witness: two cycles in a row found the bot logged out; the interval
\* is 1.0 * 1.2 * 1.2
C37_Witness ==
    /\ lpc = "sleep"
    /\ ~is_logged_in
    /\ cycle = "ok"
    /\ streak = 2
    /\ poll_interval = Times12(Times12(initial_interval))

\* C37 witness of an idle cycle after one that processed a message; the
\* interval is 0.5 * 1.2
C37_Idle ==
    /\ lpc = "sleep"
    /\ is_logged_in
    /\ cycle = "ok"
    /\ streak = 1
    /\ poll_interval = Times12(min_interval)

\* C37 witness of a cycle that processed a message
C37_Busy ==
    /\ lpc = "sleep"
    /\ cycle = "ok"
    /\ streak = 0
    /\ poll_interval = min_interval
    /\ total_messages > 0

\* C37 witness of a cycle that raised after idle ones
C37_Raised ==
    /\ lpc = "sleep"
    /\ cycle = "raised"
    /\ poll_interval = max_interval
    /\ errors # Empty

(* ------------------------------------------------------------------ *)
(* Properties of a failure inside a batch                              *)
(* ------------------------------------------------------------------ *)
\* the listener takes up a message: it goes into the download or into
\* processor.process with it
TakesUp == lpc = "loop" /\ lpc' \in {"download", "process"}

\* a message the listener has not recorded is at the head of the batch
Unrecorded ==
    /\ lpc = "loop"
    /\ messages # Empty
    /\ UniqueKey(Head(messages)) # Empty
    /\ UniqueKey(Head(messages)) \notin processed_set

\* the download or the dispatch of the message in hand raises
FailsInBatch == L_Raise /\ lpc \in {"download", "process"}

\* C33 as stated: when the download or the dispatch of a message raises, its
\* key is in processed_set and processed_order, and no later cycle takes a
\* message with that key up again; the rest of the batch is dropped without
\* being recorded, and a message not recorded is taken up when a later batch
\* brings it.  (Every message taken up in this specification raises, so the
\* keys taken up before are the keys that failed.)
C33_NeverAgain ==
    /\ [][FailsInBatch =>
            /\ UniqueKey(msg) \in processed_set
            /\ UniqueKey(msg) \in Range(processed_order)
            /\ messages' = Empty
            /\ UNCHANGED <<processed_set, processed_order>>]_vars
    /\ [][TakesUp => UniqueKey(msg') \notin dispatched \cup undispatched]_vars
    /\ [][Unrecorded => TakesUp /\ msg' = Head(messages)]_vars

\* C33 amended: as above, except that a later cycle does not take the key of
\* the failed message up again for as long as it is in processed_set, which
\* it is at least while it is in processed_order, one of the last
\* ProcessedCap (5000) keys recorded.
C33_FailureInBatch ==
    /\ [][FailsInBatch =>
            /\ UniqueKey(msg) \in processed_set
            /\ UniqueKey(msg) \in Range(processed_order)
            /\ messages' = Empty
            /\ UNCHANGED <<processed_set, processed_order>>]_vars
    /\ [][TakesUp => UniqueKey(msg') \notin processed_set]_vars
    /\ [](Range(processed_order) \subseteq processed_set)
    /\ [][Unrecorded => TakesUp /\ msg' = Head(messages)]_vars

\* C33 witness: the cycle before raised on the first message of a batch of
\* two; this cycle was handed both again, skipped the first and took the
\* second up
C33_Witness ==
    /\ lpc = "process"
    /\ cycle = "raised"
    /\ skipped_dup
    /\ Len(processed_order) = 2
    /\ processed_order[1] \in dispatched
    /\ UniqueKey(msg) = processed_order[2]
    /\ total_messages = 0

(* ------------------------------------------------------------------ *)
(* Properties of the send lock: release                                *)
(* ------------------------------------------------------------------ *)
\* the send of caller c returns r in this step
Returns(c, r) == spc[c] # "idle" /\ spc'[c] = "idle" /\ sresult'[c] = r

\* C36: the lock is held only by a send that is between its transport
\* steps, and the step in which such a send returns, true after the last
\* step, false after a step that raised or after file_input.count() found no
\* input, leaves the lock free; a send whose login check fails returns false
\* out of that check, with the lock and its queue as they were and without
\* having taken a transport step; a send leaves the queue of the lock only by
\* acquiring it, unless its caller is cancelled there; and, every await
\* inside the lock returning or raising, a send that waits for the lock does
\* leave the queue.
C36_LockReleased ==
    /\ [](\A c \in Senders : lock = c => InSend(c))
    /\ [](lock \in Senders \cup {"free"})
    /\ [][\A c \in Senders, r \in {"true", "false"} :
            InSend(c) /\ Returns(c, r) => lock = c /\ lock' = "free"]_vars
    /\ [][\A c \in Senders :
            /\ spc[c] \in {"lcount", "lvisible"}
            /\ spc'[c] = "idle"
            /\ ~Returns(c, "none")
            => /\ Returns(c, "false")
               /\ UNCHANGED <<lock, waiters>>
               /\ lock # c
               /\ ~is_logged_in' \/ skind[c] = "nofile"]_vars
    /\ [][\A c \in Senders :
            /\ spc[c] \in {"lcount", "lvisible"}
            /\ spc'[c] \notin {"lcount", "lvisible"}
            /\ ~is_logged_in'
            => spc'[c] = "idle" /\ UNCHANGED <<lock, waiters>>]_vars
    /\ [][\A c \in Senders :
            spc[c] = "wait" /\ spc'[c] # "wait" =>
                \/ lock' = c /\ InSend(c)'
                \/ Returns(c, "none")]_vars
    /\ \A c \in Senders : (spc[c] = "wait") ~> (spc[c] # "wait")

\* C36 witness: the file send of one caller returned false inside the lock;
\* the caller queued first behind it holds the lock now and the third still
\* waits
C36_Witness ==
    /\ sresult["plugin"] = "false"
    /\ spc["plugin"] = "idle"
    /\ lock = "api"
    /\ spc["api"] = "click"
    /\ waiters = <<"listener">>
    /\ spc["listener"] = "wait"

(* ------------------------------------------------------------------ *)
(* Properties of the downloads cache                                   *)
(* ------------------------------------------------------------------ *)
\* C38 as stated: a listing that _scan_downloads returns from the cache was
\* scanned no more than the TTL before the call, whatever calls for the two
\* keys came before; and a call that finds no listing under its key, as any
\* first call for a key after invalidate_downloads_cache does, scans the
\* directory.
C38_CacheFreshness ==
    /\ [](last_scan.cached => last_scan.at - last_scan.scanned <= CacheTTL)
    /\ [][invalidate_downloads_cache =>
            \A k \in CacheKeys : ~InCache(downloads_cache', k)]_vars
    /\ [][\A b \in BOOLEAN :
            scan_downloads(b) /\ ~InCache(downloads_cache, cache_key(b)) =>
                /\ ~last_scan'.cached
                /\ last_scan'.scanned = wall_clock
                /\ InCache(downloads_cache', cache_key(b))]_vars

(* ------------------------------------------------------------------ *)
(* Properties of the listener of main.py                               *)
(* ------------------------------------------------------------------ *)
\* this step calls command_processor.process for key k
LegacyInvoked(k) ==
    legacy_pc = "loop" /\ legacy_pc' = "process" /\ LegacyKey(legacy_msg') = k

\* C39 as stated: a key that was passed to command_processor.process in one
\* poll is not passed to it in the next poll, however many keys were taken up
\* before, and processed_ids holds no more than 200 keys whenever the
\* listener is suspended.
C39_LegacyAtMostOnce ==
    /\ [][\A k \in Keys : LegacyInvoked(k) => k \notin prev_done]_vars
    /\ [](Cardinality(processed_ids) <= LegacyCap)

====
